---- MODULE Spec2Model ----
(***************************************************************************)
(* The prescriber pipeline (fetch-prescribers.js): paginate the tagged     *)
(* contacts, fetch each contact's field values, build and geocode one      *)
(* record per contact, sort, and persist two copies of the output          *)
(* document.                                                               *)
(*                                                                         *)
(* JavaScript values are tagged records, so that `||`, `&&`, `!` and       *)
(* filter(Boolean) are computed on truthiness as the engine computes them. *)
(* A JavaScript string is Str(s) with s the sequence of its characters.    *)
(***************************************************************************)
EXTENDS Integers, Sequences, FiniteSets, TLC

\* ------------------------------------------------------------------------
\* Bounds of the model
\* ------------------------------------------------------------------------
\* contacts accumulated by one run
MaxContacts == 2
\* contacts on one page of the contact list
MaxPageLen == 2
\* field values of one contact (UnitSpec)
MaxFieldValues == 2
\* radius searches one visit of the map page starts (FrontSpec)
MaxSearches == 2

\* ------------------------------------------------------------------------
\* JavaScript values
\* ------------------------------------------------------------------------
Undefined == [t |-> "undefined"]
Null == [t |-> "null"]
NaN == [t |-> "NaN"]
Num(n) == [t |-> "num", v |-> n]
Str(s) == [t |-> "str", s |-> s]

\* ToBoolean: "", 0, NaN, null and undefined are falsy
Truthy(v) ==
  CASE v.t = "str" -> v.s # <<>>
    [] v.t = "num" -> v.v # 0
    [] OTHER -> FALSE

\* a || b
Or(a, b) == IF Truthy(a) THEN a ELSE b

\* obj.key of a plain object: undefined when the key is absent
Get(obj, key) == IF key \in DOMAIN obj THEN obj[key] ELSE Undefined

\* xs.filter(Boolean)
FilterBoolean(xs) == SelectSeq(xs, Truthy)

\* xs.join(sep) of an array of strings
RECURSIVE JoinChars(_, _)
JoinChars(xs, sep) ==
  IF xs = <<>> THEN <<>>
  ELSE IF Len(xs) = 1 THEN xs[1].s
  ELSE xs[1].s \o sep \o JoinChars(Tail(xs), sep)

Join(xs, sep) == Str(JoinChars(xs, sep))

\* ------------------------------------------------------------------------
\* String.prototype.localeCompare (root collation): punctuation sorts
\* before digits before letters; letters compare without case first, and
\* when nothing else differs a lower-case letter sorts before its capital.
\* ------------------------------------------------------------------------
LowerCase ==
  <<"a", "b", "c", "d", "e", "f", "g", "h", "i", "j", "k", "l", "m",
    "n", "o", "p", "q", "r", "s", "t", "u", "v", "w", "x", "y", "z">>

UpperCase ==
  <<"A", "B", "C", "D", "E", "F", "G", "H", "I", "J", "K", "L", "M",
    "N", "O", "P", "Q", "R", "S", "T", "U", "V", "W", "X", "Y", "Z">>

Punctuation == <<" ", ",", "(", ")">>

Digits == <<"0", "1", "2", "3", "4", "5", "6", "7", "8", "9">>

IndexOf(seq, c) == CHOOSE k \in 1..Len(seq) : seq[k] = c

IsIn(seq, c) == \E k \in 1..Len(seq) : seq[k] = c

\* primary weight of a character
Primary(c) ==
  IF IsIn(Punctuation, c) THEN IndexOf(Punctuation, c)
  ELSE IF IsIn(Digits, c) THEN 10 + IndexOf(Digits, c)
  ELSE IF IsIn(LowerCase, c) THEN 30 + IndexOf(LowerCase, c)
  ELSE 30 + IndexOf(UpperCase, c)

\* tertiary weight: lower case before upper case
Tertiary(c) == IF IsIn(UpperCase, c) THEN 1 ELSE 0

\* weight of a character at a comparison level
Weight(level, c) == IF level = "primary" THEN Primary(c) ELSE Tertiary(c)

\* the first difference in weight decides; a proper prefix sorts first
RECURSIVE CompareBy(_, _, _)
CompareBy(level, a, b) ==
  IF a = <<>> /\ b = <<>> THEN 0
  ELSE IF a = <<>> THEN -1
  ELSE IF b = <<>> THEN 1
  ELSE IF Weight(level, Head(a)) < Weight(level, Head(b)) THEN -1
  ELSE IF Weight(level, Head(a)) > Weight(level, Head(b)) THEN 1
  ELSE CompareBy(level, Tail(a), Tail(b))

localeCompare(a, b) ==
  IF CompareBy("primary", a.s, b.s) # 0 THEN CompareBy("primary", a.s, b.s)
  ELSE CompareBy("tertiary", a.s, b.s)

\* ------------------------------------------------------------------------
\* Program constants
\* ------------------------------------------------------------------------
BATCH_SIZE == 100

\* field id -> semantic name
FIELD_MAP ==
  [id \in {4, 5, 6, 7, 8, 9, 23, 24, 25, 26, 32, 61, 111} |->
     CASE id = 4 -> "address1"
       [] id = 5 -> "address2"
       [] id = 6 -> "city"
       [] id = 7 -> "state"
       [] id = 8 -> "zip"
       [] id = 9 -> "specialty"
       [] id = 23 -> "doctorFirstName"
       [] id = 24 -> "doctorLastName"
       [] id = 25 -> "practiceName"
       [] id = 26 -> "doctorEmail"
       [] id = 32 -> "npi"
       [] id = 61 -> "practiceType"
       [] id = 111 -> "prescriberType"]

\* ------------------------------------------------------------------------
\* The contact source: the tagged contacts of the CRM and the field values
\* it holds for each of them.
\* ------------------------------------------------------------------------
Contacts ==
  { [id |-> 1, firstName |-> Str(<<"A", "l">>), lastName |-> Str(<<"S", "m">>),
     email |-> Str(<<"a", "@", "x">>), phone |-> Str(<<"5", "5", "5">>),
     orgname |-> Str(<<>>)],
    [id |-> 2, firstName |-> Str(<<>>), lastName |-> Str(<<"Z", "o">>),
     email |-> Str(<<>>), phone |-> Str(<<>>), orgname |-> Str(<<"O", "r", "g">>)],
    [id |-> 3, firstName |-> Str(<<>>), lastName |-> Str(<<>>),
     email |-> Str(<<>>), phone |-> Str(<<>>), orgname |-> Str(<<>>)] }

\* the body of GET contacts/<id>/fieldValues; a body without a fieldValues
\* member is the empty list (data.fieldValues || [])
FieldValuesOf(id) ==
  CASE id = 1 ->
         << [field |-> 4, value |-> Str(<<"1", " ", "E", "l", "m">>)],
            [field |-> 5, value |-> Str(<<>>)],
            [field |-> 6, value |-> Str(<<"R", "y", "e">>)],
            [field |-> 7, value |-> Str(<<"N", "Y">>)],
            [field |-> 8, value |-> Str(<<"1", "0", "5", "8", "0">>)],
            [field |-> 9, value |-> Str(<<"M", "D">>)] >>
    [] id = 2 ->
         << [field |-> 24, value |-> Str(<<"A", "d">>)],
            [field |-> 23, value |-> Str(<<>>)],
            [field |-> 6, value |-> Str(<<"R", "y", "e">>)],
            [field |-> 99, value |-> Str(<<"x">>)],
            [field |-> 25, value |-> Str(<<"E", "y", "e">>)] >>
    [] OTHER -> << >>

\* ------------------------------------------------------------------------
\* fetchFieldValues: the mapping built from a fieldValues body
\* ------------------------------------------------------------------------
NoFields == [k \in {} |-> Undefined]

\* faulty variant: a recognized field is mapped whatever its value
RECURSIVE MapFieldValues_KeepsBlank(_)
MapFieldValues_KeepsBlank(fvs) ==
  IF fvs = <<>> THEN NoFields
  ELSE LET rest == MapFieldValues_KeepsBlank(SubSeq(fvs, 1, Len(fvs) - 1))
           fv == fvs[Len(fvs)]
       IN IF fv.field \in DOMAIN FIELD_MAP
          THEN [k \in DOMAIN rest \cup {FIELD_MAP[fv.field]} |->
                  IF k = FIELD_MAP[fv.field] THEN fv.value ELSE rest[k]]
          ELSE rest

RECURSIVE MapFieldValues(_)
MapFieldValues(fvs) ==
  IF fvs = <<>> THEN NoFields
  ELSE LET rest == MapFieldValues(SubSeq(fvs, 1, Len(fvs) - 1))
           fv == fvs[Len(fvs)]
       IN IF fv.field \in DOMAIN FIELD_MAP /\ Truthy(fv.value)
          THEN [k \in DOMAIN rest \cup {FIELD_MAP[fv.field]} |->
                  IF k = FIELD_MAP[fv.field] THEN fv.value ELSE rest[k]]
          ELSE rest

\* ------------------------------------------------------------------------
\* Record builder: the synchronous parts of buildPrescriber
\* ------------------------------------------------------------------------
\* faulty variant: the absent parts are joined too (as empty strings)
buildAddress_Unfiltered(fields) ==
  Join([k \in 1..5 |->
          Or(Get(fields, <<"address1", "address2", "city", "state", "zip">>[k]),
             Str(<<>>))],
       <<",", " ">>)

buildAddress(fields) ==
  Join(FilterBoolean(<< Get(fields, "address1"), Get(fields, "address2"),
                        Get(fields, "city"), Get(fields, "state"),
                        Get(fields, "zip") >>),
       <<",", " ">>)

Unknown == Str(<<"(", "u", "n", "k", "n", "o", "w", "n", ")">>)

\* faulty variant: the contact's own names come before the custom fields
buildName_ContactFirst(contact, fields) ==
  Or(Join(FilterBoolean(<< Or(contact.firstName, Get(fields, "doctorFirstName")),
                           Or(contact.lastName, Get(fields, "doctorLastName")) >>),
          <<" ">>),
     Unknown)

buildName(contact, fields) ==
  Or(Join(FilterBoolean(<< Or(Get(fields, "doctorFirstName"), contact.firstName),
                           Or(Get(fields, "doctorLastName"), contact.lastName) >>),
          <<" ">>),
     Unknown)

\* `${fields.zip}, USA`
ZipQuery(fields) == Str(Get(fields, "zip").s \o <<",", " ", "U", "S", "A">>)

\* geo?.lat || null, geo?.lng || null, geo?.source || null
GeoLat(geo) == IF geo = Null THEN Null ELSE Or(geo.lat, Null)

GeoLng(geo) == IF geo = Null THEN Null ELSE Or(geo.lng, Null)

GeoSource(geo) == IF geo = Null THEN Null ELSE Or(geo.source, Null)

\* the object literal of buildPrescriber (before enrichment)
PrescriberRecord(contact, fields, geo) ==
  [ id |-> contact.id,
    name |-> buildName(contact, fields),
    email |-> Or(Or(Get(fields, "doctorEmail"), contact.email), Null),
    phone |-> Or(contact.phone, Null),
    organization |-> Or(Or(contact.orgname, Get(fields, "practiceName")), Null),
    specialty |-> Or(Or(Get(fields, "specialty"), Get(fields, "prescriberType")), Null),
    practiceType |-> Or(Get(fields, "practiceType"), Null),
    npi |-> Or(Get(fields, "npi"), Null),
    address |->
      [ street |-> Join(FilterBoolean(<< Get(fields, "address1"),
                                         Get(fields, "address2") >>),
                        <<",", " ">>),
        city |-> Or(Get(fields, "city"), Null),
        state |-> Or(Get(fields, "state"), Null),
        zip |-> Or(Get(fields, "zip"), Null),
        full |-> Or(buildAddress(fields), Null) ],
    lat |-> GeoLat(geo),
    lng |-> GeoLng(geo),
    geoSource |-> GeoSource(geo),
    healthSystem |-> Null,
    verified |-> FALSE ]

\* ------------------------------------------------------------------------
\* Geocoder backends: the conversion of a response body to a result
\* ------------------------------------------------------------------------
DigitValue(c) == IndexOf(Digits, c) - 1

RECURSIVE DigitPrefix(_)
DigitPrefix(s) ==
  IF s = <<>> \/ ~IsIn(Digits, Head(s)) THEN <<>>
  ELSE <<Head(s)>> \o DigitPrefix(Tail(s))

RECURSIVE DigitsValue(_)
DigitsValue(ds) ==
  IF ds = <<>> THEN 0
  ELSE 10 * DigitsValue(SubSeq(ds, 1, Len(ds) - 1)) + DigitValue(ds[Len(ds)])

\* parseFloat on signed whole numbers: NaN when no digit leads the string
parseFloat(str) ==
  LET neg == str.s # <<>> /\ Head(str.s) = "-"
      body == IF neg THEN Tail(str.s) ELSE str.s
      ds == DigitPrefix(body)
  IN IF ds = <<>> THEN NaN
     ELSE Num(IF neg THEN 0 - DigitsValue(ds) ELSE DigitsValue(ds))

\* first entries of a non-empty Nominatim result list
NominatimResults ==
  { [lat |-> Str(<<"4", "1">>), lon |-> Str(<<"-", "7", "3">>)],
    [lat |-> Str(<<"0">>), lon |-> Str(<<"-", "7", "3">>)] }

\* results[0].geometry.location of a Google geocoding response
GoogleLocations ==
  { [lat |-> Num(41), lng |-> Num(0 - 73)],
    [lat |-> Num(41), lng |-> Num(0)] }

SourceNominatim == Str(<<"n", "o", "m", "i", "n", "a", "t", "i", "m">>)

SourceGoogle == Str(<<"g", "o", "o", "g", "l", "e">>)

\* the object geocodeNominatim returns for results[0] = r
NominatimResult(r) ==
  [lat |-> parseFloat(r.lat), lng |-> parseFloat(r.lon), source |-> SourceNominatim]

\* the object geocodeGoogle returns for results[0].geometry.location = loc
GoogleResult(loc) ==
  [lat |-> loc.lat, lng |-> loc.lng, source |-> SourceGoogle]

\* what a geocoder call can come to: the request fails in transport or its
\* body cannot be read ("throw"), the status is not a success or the result
\* set is empty ("none"), or there is a first result ("hit")
GeocodeOutcomes(backend) ==
  { [kind |-> "throw"], [kind |-> "none"] }
    \cup (IF backend = "google"
          THEN { [kind |-> "hit", geo |-> GoogleResult(loc)] : loc \in GoogleLocations }
          ELSE { [kind |-> "hit", geo |-> NominatimResult(r)] : r \in NominatimResults })

\* ------------------------------------------------------------------------
\* Places enrichment: the conversion of a response to an enrichment
\* ------------------------------------------------------------------------
NoMatch == [healthSystem |-> Null, verified |-> FALSE]

\* first entries of a non-empty places result list
Places ==
  { [name |-> Str(<<"M", "a", "y", "o">>), formatted_address |-> Str(<<"R", "y", "e">>)] }

PlaceMatch(place) ==
  [healthSystem |-> Or(Get(place, "name"), Null),
   googleAddress |-> Or(Get(place, "formatted_address"), Null),
   verified |-> TRUE]

\* "throw" (caught), "none" (status not a success, or no results) and a hit
PlacesOutcomes ==
  { [kind |-> "throw"], [kind |-> "none"] }
    \cup { [kind |-> "hit", place |-> pl] : pl \in Places }

\* String.prototype.trim, on strings whose only white space is the space
RECURSIVE TrimStart(_)
TrimStart(cs) == IF cs # <<>> /\ Head(cs) = " " THEN TrimStart(Tail(cs)) ELSE cs

RECURSIVE TrimEnd(_)
TrimEnd(cs) ==
  IF cs # <<>> /\ cs[Len(cs)] = " " THEN TrimEnd(SubSeq(cs, 1, Len(cs) - 1)) ELSE cs

Trim(str) == Str(TrimEnd(TrimStart(str.s)))

Hint == <<" ", "o", "p", "h", "t", "h", "a", "l", "m", "o", "l", "o", "g", "i", "s", "t", " ">>

\* `${prescriber.name} ophthalmologist ${prescriber.city || ""}
\* ${prescriber.state || ""}`.trim()
EnrichQuery(p) ==
  Trim(Str(p.name.s \o Hint \o Or(Get(p, "city"), Str(<<>>)).s \o <<" ">>
           \o Or(Get(p, "state"), Str(<<>>)).s))

\* the three assignments after `await enrichWithGoogle(prescriber)`
Enriched(p, enrichment) ==
  LET q == [p EXCEPT !.healthSystem = enrichment.healthSystem,
                     !.verified = enrichment.verified]
  IN IF Truthy(Get(enrichment, "googleAddress"))
     THEN [k \in DOMAIN q \cup {"googleAddress"} |->
             IF k = "googleAddress" THEN enrichment.googleAddress ELSE q[k]]
     ELSE q

\* ------------------------------------------------------------------------
\* prescribers.sort((a, b) => a.name.localeCompare(b.name)): Array.prototype
\* .sort is a stable merge sort
\* ------------------------------------------------------------------------
\* faulty variant: the comparator with its arguments swapped
CompareNames_Swapped(a, b) == localeCompare(b.name, a.name)

CompareNames(a, b) == localeCompare(a.name, b.name)

\* two sorted arrays as one; of two elements that compare equal the one of
\* the first array comes first
RECURSIVE Merge(_, _)
Merge(a, b) ==
  IF a = <<>> THEN b
  ELSE IF b = <<>> THEN a
  ELSE IF ~(CompareNames(a[Len(a)], b[1]) > 0) THEN a \o b
  ELSE LET mid == (Len(a) + 1) \div 2
           before == Cardinality({j \in 1..Len(b) : CompareNames(b[j], a[mid]) < 0})
       IN Merge(SubSeq(a, 1, mid - 1), SubSeq(b, 1, before))
            \o <<a[mid]>>
            \o Merge(SubSeq(a, mid + 1, Len(a)), SubSeq(b, before + 1, Len(b)))

RECURSIVE Sort(_)
Sort(xs) ==
  IF Len(xs) <= 1 THEN xs
  ELSE Merge(Sort(SubSeq(xs, 1, Len(xs) \div 2)),
             Sort(SubSeq(xs, Len(xs) \div 2 + 1, Len(xs))))

\* ------------------------------------------------------------------------
\* State of one run of the pipeline
\* ------------------------------------------------------------------------
VARIABLES
  AC_BASE_URL,   \* ACTIVECAMPAIGN_URL is set
  AC_API_KEY,    \* ACTIVECAMPAIGN_API_KEY is set
  GOOGLE_KEY,    \* GOOGLE_PLACES_API_KEY is set
  GEOCODER,      \* process.env.GEOCODER || "nominatim"
  ENRICH,        \* --enrich
  DRY_RUN,       \* --dry-run
  pc,            \* what main is waiting for
  exitCode,      \* exit status of the process, -1 while it runs
  abortCause,    \* the call whose failure ended the run, "" when none
  offset,        \* fetchAllPrescribers: offset of the page requested last
  all,           \* fetchAllPrescribers: contacts accumulated
  lastPage,      \* fetchAllPrescribers: the page received last
  i,             \* main: index of the contact in work (0-based)
  fields,        \* main: field mapping of the contact in work
  geo,           \* buildPrescriber: the geocode result kept for the record
  prescriber,    \* buildPrescriber: the record while enrichment is awaited
  prescribers,   \* main: the records pushed (sorted in place at the end)
  geocoded,      \* main: counter
  skipped,       \* main: counter
  output,        \* main: the output document, Null until built
  geocodeCount,  \* module-level counter of geocodeNominatim
  backend,       \* geocoder backend of the call in flight
  inFlight,      \* geocoder requests sent and not yet answered
  lastDelay,     \* ms slept before the Nominatim request sent last
  networkUsed,   \* the run has sent a network request
  queries,       \* geocode calls made for the contact in work, with results
  built,         \* records in the order they were pushed
  geoLog,        \* per pushed record: its geocode calls and their result
  dataFile,      \* content of data/prescribers.json
  publicFile,    \* content of public/prescribers.json
  clock,         \* the time new Date() reads when the document is built
  enrich,        \* enrichWithGoogle for the contact in work: called, query, result
  twin,          \* the state of another run of the pipeline (a record like Cur)
  source,        \* number of tagged contacts the CRM holds (SourceSpec)
  unit           \* one call of fetchFieldValues or buildPrescriber (UnitSpec)

config == <<AC_BASE_URL, AC_API_KEY, GOOGLE_KEY, GEOCODER, ENRICH, DRY_RUN>>

run == <<pc, exitCode, abortCause, offset, all, lastPage, i, fields, geo, prescriber,
         prescribers, geocoded, skipped, output, geocodeCount, backend, inFlight,
         lastDelay, networkUsed, queries, built, geoLog, dataFile, publicFile, clock,
         enrich>>

\* ------------------------------------------------------------------------
\* State of the map page (public/js/app.js)
\* ------------------------------------------------------------------------
VARIABLES
  phase,          \* "gate" before init, "loading" while loadData waits, "ready" after it
  bound,          \* bindEvents has added the listeners
  allPrescribers, \* the record list
  searchLat,      \* latitude of the active radius search, Null when none
  searchLng,      \* longitude of the active radius search, Null when none
  searchCircle,   \* the radius overlay, Null when none
  circles,        \* radius overlays on the map
  zipMarkers,     \* patient-zip markers on the map
  markers,        \* layers of markerCluster
  listed,         \* the list showPrescribers was called with last
  displayList,    \* cards of #prescriber-list
  mapView,        \* the view the map was set to last
  zipInput,       \* value of #zip-input
  radiusSelect,   \* value of #radius-select
  stateFilter,    \* value of #state-filter
  stateOptions,   \* the codes #state-filter offers besides ""
  doctorSearch,   \* value of #doctor-search
  resultCount,    \* text of #result-count
  dataInfo,       \* text of #data-info
  loadingHidden,  \* #loading is hidden
  alerted,        \* the alert the handler that ran last raised, "" when none
  pending,        \* calls of doSearch waiting for geocodeZip
  searches,       \* calls of doSearch that reached geocodeZip
  drawnBy         \* the call of doSearch whose result is on display, 0 when none is

front == <<phase, bound, allPrescribers, searchLat, searchLng, searchCircle, circles, zipMarkers,
          markers, listed, displayList, mapView, zipInput, radiusSelect, stateFilter,
          stateOptions, doctorSearch, resultCount, dataInfo,
          loadingHidden, alerted, pending, searches, drawnBy>>

vars == <<config, run, twin, source, unit, front>>

\* map.setView([39.8, -98.5], 4): the view of the whole country
HomeView == [t |-> "home"]

\* the page when the script has been loaded and init has not run
PageStart ==
  /\ phase = "gate"
  /\ bound = FALSE
  /\ allPrescribers = <<>>
  /\ searchLat = Null
  /\ searchLng = Null
  /\ searchCircle = Undefined
  /\ circles = <<>>
  /\ zipMarkers = <<>>
  /\ markers = <<>>
  /\ listed = <<>>
  /\ displayList = <<>>
  /\ mapView = Null
  /\ zipInput = Str(<<>>)
  /\ radiusSelect = Str(<<"1", "0">>)
  /\ stateFilter = Str(<<>>)
  /\ stateOptions = <<>>
  /\ doctorSearch = Str(<<>>)
  /\ resultCount = Str(<<>>)
  /\ dataInfo = Str(<<>>)
  /\ loadingHidden = TRUE
  /\ alerted = ""
  /\ pending = <<>>
  /\ searches = 0
  /\ drawnBy = 0

\* the page's state as one record, and its assignment to the variables
Page ==
  [ phase |-> phase, bound |-> bound, allPrescribers |-> allPrescribers, searchLat |-> searchLat,
    searchLng |-> searchLng, searchCircle |-> searchCircle, circles |-> circles,
    zipMarkers |-> zipMarkers, markers |-> markers, listed |-> listed,
    displayList |-> displayList, mapView |-> mapView, zipInput |-> zipInput,
    radiusSelect |-> radiusSelect, stateFilter |-> stateFilter,
    stateOptions |-> stateOptions, doctorSearch |-> doctorSearch,
    resultCount |-> resultCount, dataInfo |-> dataInfo,
    loadingHidden |-> loadingHidden, alerted |-> alerted, pending |-> pending,
    searches |-> searches, drawnBy |-> drawnBy ]

\* the page's variables take the values of the record s
Shows(s) ==
  /\ phase' = s.phase /\ bound' = s.bound /\ allPrescribers' = s.allPrescribers
  /\ searchLat' = s.searchLat /\ searchLng' = s.searchLng
  /\ searchCircle' = s.searchCircle /\ circles' = s.circles
  /\ zipMarkers' = s.zipMarkers /\ markers' = s.markers /\ listed' = s.listed
  /\ displayList' = s.displayList /\ mapView' = s.mapView /\ zipInput' = s.zipInput
  /\ radiusSelect' = s.radiusSelect /\ stateFilter' = s.stateFilter
  /\ stateOptions' = s.stateOptions /\ doctorSearch' = s.doctorSearch
  /\ resultCount' = s.resultCount /\ dataInfo' = s.dataInfo
  /\ loadingHidden' = s.loadingHidden /\ alerted' = s.alerted
  /\ pending' = s.pending /\ searches' = s.searches /\ drawnBy' = s.drawnBy
  /\ UNCHANGED <<config, run, twin, source, unit>>

SLEEP_MS == 1100

\* content of an output file the run has not written
OldFile == [t |-> "old"]

\* the run's state as one record, and its assignment to the variables
Cur ==
  [ pc |-> pc, exitCode |-> exitCode, abortCause |-> abortCause, offset |-> offset,
    all |-> all, lastPage |-> lastPage, i |-> i, fields |-> fields, geo |-> geo,
    prescriber |-> prescriber, prescribers |-> prescribers, geocoded |-> geocoded,
    skipped |-> skipped, output |-> output, geocodeCount |-> geocodeCount,
    backend |-> backend, inFlight |-> inFlight, lastDelay |-> lastDelay,
    networkUsed |-> networkUsed, queries |-> queries, built |-> built, geoLog |-> geoLog,
    dataFile |-> dataFile, publicFile |-> publicFile, clock |-> clock,
    enrich |-> enrich ]

\* the run's variables take the values of the record s
Assign(s) ==
  /\ pc' = s.pc /\ exitCode' = s.exitCode /\ abortCause' = s.abortCause
  /\ offset' = s.offset /\ all' = s.all /\ lastPage' = s.lastPage
  /\ i' = s.i /\ fields' = s.fields /\ geo' = s.geo /\ prescriber' = s.prescriber
  /\ prescribers' = s.prescribers /\ geocoded' = s.geocoded /\ skipped' = s.skipped
  /\ output' = s.output /\ geocodeCount' = s.geocodeCount /\ backend' = s.backend
  /\ inFlight' = s.inFlight /\ lastDelay' = s.lastDelay /\ networkUsed' = s.networkUsed
  /\ queries' = s.queries /\ built' = s.built /\ geoLog' = s.geoLog
  /\ dataFile' = s.dataFile /\ publicFile' = s.publicFile /\ clock' = s.clock
  /\ enrich' = s.enrich

Becomes(s) ==
  /\ Assign(s)
  /\ UNCHANGED <<config, twin, source, unit, front>>

\* enrichWithGoogle was not called; it was called, with the query it sent
\* (null when it returned before building one) and results[0] of the answer
\* (null when there was no answer or none with a result)
NotEnriched == [called |-> FALSE, query |-> Null, place |-> Null]

EnrichCall(query, place) == [called |-> TRUE, query |-> query, place |-> place]

\* the state in which a process starts main at time t over the files data
\* and pub: every binding of the module and of main is new
Started(t, data, pub) ==
  [ pc |-> "start", exitCode |-> -1, abortCause |-> "", offset |-> 0, all |-> <<>>,
    lastPage |-> Null, i |-> 0, fields |-> NoFields, geo |-> Null,
    prescriber |-> Null, prescribers |-> <<>>, geocoded |-> 0, skipped |-> 0,
    output |-> Null, geocodeCount |-> 0, backend |-> "", inFlight |-> 0,
    lastDelay |-> 0, networkUsed |-> FALSE, queries |-> <<>>, built |-> <<>>,
    geoLog |-> <<>>, dataFile |-> data, publicFile |-> pub, clock |-> t,
    enrich |-> NotEnriched ]

\* what an earlier run left in the two files
PriorFile ==
  [json |-> [ generated |-> 0, total |-> 1, geocoded |-> 0, noAddress |-> 1,
              prescribers |-> << PrescriberRecord(
                                   [id |-> 3, firstName |-> Str(<<>>),
                                    lastName |-> Str(<<>>), email |-> Str(<<>>),
                                    phone |-> Str(<<>>), orgname |-> Str(<<>>)],
                                   NoFields, Null) >> ]]

\* process.env.GEOCODER: "" when the variable is unset or empty
GeocoderEnv == {"", "nominatim", "google", "mapbox"}

\* process.env.GEOCODER || "nominatim"
GeocoderOf(env) == IF env = "" THEN "nominatim" ELSE env

GeocoderValues == {GeocoderOf(env) : env \in GeocoderEnv}

\* the state of one run about to start, under any environment and flags
InitRun ==
  /\ AC_BASE_URL \in BOOLEAN
  /\ AC_API_KEY \in BOOLEAN
  /\ GOOGLE_KEY \in BOOLEAN
  /\ GEOCODER \in GeocoderValues
  /\ ENRICH \in BOOLEAN
  /\ DRY_RUN \in BOOLEAN
  /\ pc = "start"
  /\ exitCode = -1
  /\ abortCause = ""
  /\ offset = 0
  /\ all = <<>>
  /\ lastPage = Null
  /\ i = 0
  /\ fields = NoFields
  /\ geo = Null
  /\ prescriber = Null
  /\ prescribers = <<>>
  /\ geocoded = 0
  /\ skipped = 0
  /\ output = Null
  /\ geocodeCount = 0
  /\ backend = ""
  /\ inFlight = 0
  /\ lastDelay = 0
  /\ networkUsed = FALSE
  /\ queries = <<>>
  /\ built = <<>>
  /\ geoLog = <<>>
  /\ dataFile = OldFile
  /\ publicFile = OldFile
  /\ clock = 1
  /\ enrich = NotEnriched
  /\ twin = Started(2, PriorFile, PriorFile)
  /\ PageStart

\* no call on its own
NoUnit == [op |-> "none", raw |-> Null, contact |-> Null, fieldValues |-> <<>>, fields |-> NoFields,
           result |-> Null]

Init ==
  /\ InitRun
  /\ source = 0
  /\ unit = NoUnit

\* ------------------------------------------------------------------------
\* The synchronous stretches of the run, each from one await to the next
\* ------------------------------------------------------------------------
\* an exception nobody catches rejects main(); main().catch exits with 1
Abort(s, cause) == [s EXCEPT !.pc = "exit", !.exitCode = 1, !.abortCause = cause]

\* JSON.stringify(output, null, 2)
Stringify(doc) == [json |-> doc]

\* faulty variant: the records are added to those of the existing data file
Finalize_AddsToExisting(s) ==
  LET kept == IF s.dataFile = OldFile THEN <<>> ELSE s.dataFile.json.prescribers
      out == [ generated |-> s.clock,
               total |-> Len(s.prescribers),
               geocoded |-> s.geocoded,
               noAddress |-> s.skipped,
               prescribers |-> Sort(kept \o s.prescribers) ]
      s1 == [s EXCEPT !.prescribers = Sort(kept \o s.prescribers), !.output = out]
  IN IF DRY_RUN
     THEN [s1 EXCEPT !.pc = "exit", !.exitCode = 0]
     ELSE [s1 EXCEPT !.pc = "write_data"]

\* main, after the loop: build the document, sort in place, persist or preview
Finalize(s) ==
  LET out == [ generated |-> s.clock,
               total |-> Len(s.prescribers),
               geocoded |-> s.geocoded,
               noAddress |-> s.skipped,
               prescribers |-> Sort(s.prescribers) ]
      s1 == [s EXCEPT !.prescribers = Sort(s.prescribers), !.output = out]
  IN IF DRY_RUN
     THEN [s1 EXCEPT !.pc = "exit", !.exitCode = 0]
     ELSE [s1 EXCEPT !.pc = "write_data"]

\* main: the loop test and the fieldValues request of the next contact
LoopTest(s) ==
  IF s.i < Len(s.all)
  THEN [s EXCEPT !.pc = "await_fieldValues", !.networkUsed = TRUE,
                 !.queries = <<>>, !.fields = NoFields, !.geo = Null,
                 !.prescriber = Null, !.enrich = NotEnriched]
  ELSE Finalize(s)

\* faulty variant: every record without coordinates counts as "no address"
PushRecord_CountsEveryMiss(s, p) ==
  LET hit == Truthy(p.lat) /\ Truthy(p.lng)
  IN LoopTest([s EXCEPT
       !.geocoded = IF hit THEN @ + 1 ELSE @,
       !.skipped = IF ~hit THEN @ + 1 ELSE @,
       !.prescribers = Append(@, p),
       !.built = Append(@, p),
       !.geoLog = Append(@, [queries |-> s.queries, geo |-> s.geo, enrich |-> s.enrich]),
       !.i = @ + 1])

\* main: count and push the record buildPrescriber returned, i++
PushRecord(s, p) ==
  LET hit == Truthy(p.lat) /\ Truthy(p.lng)
  IN LoopTest([s EXCEPT
       !.geocoded = IF hit THEN @ + 1 ELSE @,
       !.skipped = IF ~hit /\ ~Truthy(p.address.full) THEN @ + 1 ELSE @,
       !.prescribers = Append(@, p),
       !.built = Append(@, p),
       !.geoLog = Append(@, [queries |-> s.queries, geo |-> s.geo, enrich |-> s.enrich]),
       !.i = @ + 1])

\* the fetch of geocodeNominatim, after the optional sleep
geocodeNominatim(s, delay) ==
  [s EXCEPT !.geocodeCount = @ + 1, !.pc = "await_geocode", !.backend = "nominatim",
            !.inFlight = @ + 1, !.networkUsed = TRUE, !.lastDelay = delay]

geocodeGoogle(s) ==
  [s EXCEPT !.pc = "await_geocode", !.backend = "google",
            !.inFlight = @ + 1, !.networkUsed = TRUE]

\* faulty variant: the paid backend is used without a key
geocode_WithoutKey(s, address) ==
  LET s1 == [s EXCEPT !.queries = Append(@, [address |-> address, result |-> Undefined])]
  IN IF GEOCODER = "google"
     THEN geocodeGoogle(s1)
     ELSE IF s1.geocodeCount > 0
          THEN [s1 EXCEPT !.pc = "await_sleep"]
          ELSE geocodeNominatim(s1, 0)

\* faulty variant: the sleep is taken from the third call on
geocode_LateSleep(s, address) ==
  LET s1 == [s EXCEPT !.queries = Append(@, [address |-> address, result |-> Undefined])]
  IN IF GEOCODER = "google" /\ GOOGLE_KEY
     THEN geocodeGoogle(s1)
     ELSE IF s1.geocodeCount > 1
          THEN [s1 EXCEPT !.pc = "await_sleep"]
          ELSE geocodeNominatim(s1, 0)

\* geocode(address) up to its first await
geocode(s, address) ==
  LET s1 == [s EXCEPT !.queries = Append(@, [address |-> address, result |-> Undefined])]
  IN IF GEOCODER = "google" /\ GOOGLE_KEY
     THEN geocodeGoogle(s1)
     ELSE IF s1.geocodeCount > 0
          THEN [s1 EXCEPT !.pc = "await_sleep"]
          ELSE geocodeNominatim(s1, 0)

\* faulty variant: enrichment is attempted without --enrich
buildRecord_AlwaysEnrich(s, g) ==
  LET p == PrescriberRecord(s.all[s.i + 1], s.fields, g)
      s1 == [s EXCEPT !.geo = g]
  IN IF ~GOOGLE_KEY
     THEN PushRecord([s1 EXCEPT !.enrich = EnrichCall(Null, Null)], Enriched(p, NoMatch))
     ELSE [s1 EXCEPT !.pc = "await_places", !.prescriber = p, !.networkUsed = TRUE,
                     !.enrich = EnrichCall(EnrichQuery(p), Null)]

\* buildPrescriber from the record literal on
buildRecord(s, g) ==
  LET p == PrescriberRecord(s.all[s.i + 1], s.fields, g)
      s1 == [s EXCEPT !.geo = g]
  IN IF ENRICH
     THEN IF ~GOOGLE_KEY
          THEN PushRecord([s1 EXCEPT !.enrich = EnrichCall(Null, Null)],
                          Enriched(p, NoMatch))
          ELSE [s1 EXCEPT !.pc = "await_places", !.prescriber = p, !.networkUsed = TRUE,
                          !.enrich = EnrichCall(EnrichQuery(p), Null)]
     ELSE PushRecord(s1, p)

\* parseInt(text, 10) on unsigned whole numbers: NaN when no digit leads
parseInt(str) ==
  IF DigitPrefix(str.s) = <<>> THEN NaN ELSE Num(DigitsValue(DigitPrefix(str.s)))

\* all.length >= total: false whenever total is NaN
AtLeast(n, total) == total.t = "num" /\ n >= total.v

\* data.contacts of a contact-list response
Pages == UNION { [1..n -> Contacts] : n \in 0..MaxPageLen }

\* data.meta?.total of a contact-list response
TotalTexts ==
  { Undefined, Str(<<"x">>) } \cup { Str(<<Digits[k + 1]>>) : k \in 0..MaxContacts }

\* the largest offset a run reaches before MaxContacts contacts have arrived
MaxOffset == BATCH_SIZE * MaxContacts

\* what accumulates: exactly all.push(...contacts); with keep = TRUE only
\* the first MaxContacts contacts are kept once more have arrived
Accumulate(acc, contacts, keep) ==
  IF keep /\ Len(acc \o contacts) > MaxContacts
  THEN SubSeq(acc \o contacts, 1, MaxContacts)
  ELSE acc \o contacts

\* faulty variant: the next page starts on the last contact of this one
fetchAllPrescribers_Overlap(s, contacts, totalText, keep) ==
  LET acc == Accumulate(s.all, contacts, keep)
      total == parseInt(Or(totalText, Str(<<"0">>)))
      s1 == [s EXCEPT !.all = acc,
                      !.lastPage = [offset |-> s.offset, n |-> Len(contacts),
                                    total |-> total, count |-> Len(acc)]]
  IN IF AtLeast(Len(acc), total) \/ Len(contacts) = 0
     THEN [s1 EXCEPT !.pc = "fetched"]
     ELSE [s1 EXCEPT !.offset = IF keep /\ @ >= MaxOffset THEN @ ELSE @ + BATCH_SIZE - 1,
                     !.networkUsed = TRUE]

\* faulty variant: the loop breaks only when the count exceeds the total
fetchAllPrescribers_StrictTotal(s, contacts, totalText, keep) ==
  LET acc == Accumulate(s.all, contacts, keep)
      total == parseInt(Or(totalText, Str(<<"0">>)))
      s1 == [s EXCEPT !.all = acc,
                      !.lastPage = [offset |-> s.offset, n |-> Len(contacts),
                                    total |-> total, count |-> Len(acc)]]
  IN IF (total.t = "num" /\ Len(acc) > total.v) \/ Len(contacts) = 0
     THEN [s1 EXCEPT !.pc = "fetched"]
     ELSE [s1 EXCEPT !.offset = IF keep /\ @ >= MaxOffset THEN @ ELSE @ + BATCH_SIZE,
                     !.networkUsed = TRUE]

\* one turn of the loop of fetchAllPrescribers, from the response on
fetchAllPrescribers(s, contacts, totalText, keep) ==
  LET acc == Accumulate(s.all, contacts, keep)
      total == parseInt(Or(totalText, Str(<<"0">>)))
      s1 == [s EXCEPT !.all = acc,
                      !.lastPage = [offset |-> s.offset, n |-> Len(contacts),
                                    total |-> total, count |-> Len(acc)]]
  IN IF AtLeast(Len(acc), total) \/ Len(contacts) = 0
     THEN [s1 EXCEPT !.pc = "fetched"]
     ELSE [s1 EXCEPT !.offset = IF keep /\ @ >= MaxOffset THEN @ ELSE @ + BATCH_SIZE,
                     !.networkUsed = TRUE]

\* ------------------------------------------------------------------------
\* Actions
\* ------------------------------------------------------------------------
\* faulty variant: only ACTIVECAMPAIGN_URL is checked
Main_UrlOnly ==
  /\ pc = "start"
  /\ IF ~AC_BASE_URL
     THEN Becomes(Abort(Cur, "config"))
     ELSE Becomes([Cur EXCEPT !.pc = "await_contacts", !.networkUsed = TRUE])

\* main up to the first contact-list request
AfterStart(s) ==
  IF ~AC_BASE_URL \/ ~AC_API_KEY
  THEN Abort(s, "config")
  ELSE [s EXCEPT !.pc = "await_contacts", !.networkUsed = TRUE]

Main ==
  /\ pc = "start"
  /\ Becomes(AfterStart(Cur))

\* acFetch("contacts") resolves
ContactsResponse ==
  /\ pc = "await_contacts"
  /\ \E contacts \in Pages, totalText \in TotalTexts :
       /\ Len(all) + Len(contacts) <= MaxContacts
       /\ Becomes(fetchAllPrescribers(Cur, contacts, totalText, FALSE))

\* the same, for a source that never runs dry: the model keeps the first
\* MaxContacts contacts that arrive and counts the offset up to MaxOffset.
\* Every reported total is at most MaxContacts or NaN, so each test
\* `all.length >= total` comes out as it does on the full list.
ContactsResponseUnbounded ==
  /\ pc = "await_contacts"
  /\ \E contacts \in Pages, totalText \in TotalTexts :
       Becomes(fetchAllPrescribers(Cur, contacts, totalText, TRUE))

\* acFetch("contacts") throws: transport failure or status not a success
ContactsFail ==
  /\ pc = "await_contacts"
  /\ Becomes(Abort(Cur, "contacts"))

\* fetchAllPrescribers has returned (its locals are gone): main enters the loop
AfterFetched(s) == LoopTest([s EXCEPT !.offset = 0, !.lastPage = Null, !.i = 0])

StartLoop ==
  /\ pc = "fetched"
  /\ Becomes(AfterFetched(Cur))

\* acFetch(fieldValues) resolves: fetchFieldValues returns, buildPrescriber
\* runs up to its first await
AfterFieldValues(s) ==
  LET f == MapFieldValues(FieldValuesOf(s.all[s.i + 1].id))
      s1 == [s EXCEPT !.fields = f]
  IN IF Truthy(buildAddress(f))
     THEN geocode(s1, buildAddress(f))
     ELSE buildRecord(s1, Null)

FieldValuesResponse ==
  /\ pc = "await_fieldValues"
  /\ Becomes(AfterFieldValues(Cur))

\* acFetch(fieldValues) throws
FieldValuesFail ==
  /\ pc = "await_fieldValues"
  /\ Becomes(Abort(Cur, "fieldValues"))

\* sleep(1100) of geocodeNominatim is over
SleepDone ==
  /\ pc = "await_sleep"
  /\ Becomes(geocodeNominatim(Cur, SLEEP_MS))

\* faulty variant: the zip fallback is made whatever the first call returned
GeocodeReturns_AlwaysFallback ==
  /\ pc = "await_geocode"
  /\ \E o \in GeocodeOutcomes(backend) :
       /\ o.kind # "throw"
       /\ LET g == IF o.kind = "hit" THEN o.geo ELSE Null
              s1 == [Cur EXCEPT !.inFlight = @ - 1,
                                !.queries[Len(queries)].result = g]
          IN IF Len(queries) = 1 /\ Truthy(Get(fields, "zip"))
             THEN Becomes(geocode(s1, ZipQuery(fields)))
             ELSE Becomes(buildRecord(s1, g))

\* buildPrescriber from the return of a geocode call with outcome o on
AfterGeocode(s, o) ==
  LET g == IF o.kind = "hit" THEN o.geo ELSE Null
      s1 == [s EXCEPT !.inFlight = @ - 1,
                      !.queries[Len(s.queries)].result = g]
  IN IF Len(s.queries) = 1 /\ g = Null /\ Truthy(Get(s.fields, "zip"))
     THEN geocode(s1, ZipQuery(s.fields))
     ELSE buildRecord(s1, g)

\* the geocoder call returns null or a result; buildPrescriber goes on
GeocodeReturns ==
  /\ pc = "await_geocode"
  /\ \E o \in GeocodeOutcomes(backend) :
       /\ o.kind # "throw"
       /\ Becomes(AfterGeocode(Cur, o))

\* the geocoder call throws: nothing catches it before main().catch
GeocodeThrows ==
  /\ pc = "await_geocode"
  /\ Becomes(Abort([Cur EXCEPT !.inFlight = @ - 1], "geocode"))

\* the places search settles: enrichWithGoogle returns, the record is pushed
AfterPlaces(s, o) ==
  LET enrichment == IF o.kind = "hit" THEN PlaceMatch(o.place) ELSE NoMatch
      s1 == [s EXCEPT !.enrich.place = IF o.kind = "hit" THEN o.place ELSE Null]
  IN PushRecord(s1, Enriched(s.prescriber, enrichment))

PlacesResponse ==
  /\ pc = "await_places"
  /\ \E o \in PlacesOutcomes : Becomes(AfterPlaces(Cur, o))

\* writeFileSync(OUTPUT_PATH, ...) returns
WrittenData(s) == [s EXCEPT !.dataFile = Stringify(s.output), !.pc = "write_public"]

\* writeFileSync(OUTPUT_PATH, ...)
WriteData ==
  /\ pc = "write_data"
  /\ \/ Becomes(WrittenData(Cur))
     \/ Becomes(Abort(Cur, "write"))

\* faulty variant: the public copy is not written
WritePublic_Skipped ==
  /\ pc = "write_public"
  /\ \/ Becomes([Cur EXCEPT !.pc = "exit", !.exitCode = 0])
     \/ Becomes(Abort(Cur, "write"))

\* writeFileSync(PUBLIC_OUTPUT, ...) returns, and then main
WrittenPublic(s) ==
  [s EXCEPT !.publicFile = Stringify(s.output), !.pc = "exit", !.exitCode = 0]

\* writeFileSync(PUBLIC_OUTPUT, ...), then main returns
WritePublic ==
  /\ pc = "write_public"
  /\ \/ Becomes(WrittenPublic(Cur))
     \/ Becomes(Abort(Cur, "write"))

Next ==
  \/ Main
  \/ ContactsResponse
  \/ ContactsFail
  \/ StartLoop
  \/ FieldValuesResponse
  \/ FieldValuesFail
  \/ SleepDone
  \/ GeocodeReturns
  \/ GeocodeThrows
  \/ PlacesResponse
  \/ WriteData
  \/ WritePublic

Spec == Init /\ [][Next]_vars

\* fetchAllPrescribers alone, against an unbounded contact source; every
\* response that arrives is handled (the loop runs on as long as it can)
PagingNext ==
  \/ Main
  \/ ContactsResponseUnbounded
  \/ ContactsFail

PagingSpec == Init /\ [][PagingNext]_vars /\ WF_vars(PagingNext)

\* ------------------------------------------------------------------------
\* The pipeline run twice against the same upstream. The two runs are two
\* processes with the same environment and flags; twin is the run made at
\* another time, over the files an earlier run left. Each response of the
\* upstream (a contact page, a contact's field values, a geocoder or places
\* answer) is delivered to both runs, which are followed up to their
\* documents.
\* ------------------------------------------------------------------------
\* both runs wait for the same thing
Paired(at) == pc = at /\ twin.pc = at

\* a step of both runs on the same response
Both(s, t) ==
  /\ Assign(s)
  /\ twin' = t
  /\ UNCHANGED <<config, source, unit, front>>

TwinMain ==
  /\ Paired("start")
  /\ Both(AfterStart(Cur), AfterStart(twin))

TwinContactsResponse ==
  /\ Paired("await_contacts")
  /\ \E contacts \in Pages, totalText \in TotalTexts :
       /\ Len(all) + Len(contacts) <= MaxContacts
       /\ Both(fetchAllPrescribers(Cur, contacts, totalText, FALSE),
               fetchAllPrescribers(twin, contacts, totalText, FALSE))

TwinStartLoop ==
  /\ Paired("fetched")
  /\ Both(AfterFetched(Cur), AfterFetched(twin))

TwinFieldValuesResponse ==
  /\ Paired("await_fieldValues")
  /\ Both(AfterFieldValues(Cur), AfterFieldValues(twin))

\* each run sleeps by itself; the model lets them wake together
TwinSleepDone ==
  /\ Paired("await_sleep")
  /\ Both(geocodeNominatim(Cur, SLEEP_MS), geocodeNominatim(twin, SLEEP_MS))

TwinGeocodeReturns ==
  /\ Paired("await_geocode")
  /\ \E o \in GeocodeOutcomes(backend) :
       /\ o.kind # "throw"
       /\ Both(AfterGeocode(Cur, o), AfterGeocode(twin, o))

TwinPlacesResponse ==
  /\ Paired("await_places")
  /\ \E o \in PlacesOutcomes : Both(AfterPlaces(Cur, o), AfterPlaces(twin, o))

TwinNext ==
  \/ TwinMain
  \/ TwinContactsResponse
  \/ TwinStartLoop
  \/ TwinFieldValuesResponse
  \/ TwinSleepDone
  \/ TwinGeocodeReturns
  \/ TwinPlacesResponse

TwinSpec == Init /\ [][TwinNext]_vars

\* ------------------------------------------------------------------------
\* The pipeline against a CRM that serves the contact list as asked: the
\* tagged contacts are a fixed list with distinct ids, and the response to
\* limit=100&offset=o holds the contacts o+1 .. o+100 of that list. The
\* contacts of this list have no field values.
\* ------------------------------------------------------------------------
\* sizes of the list: none, one page or less, more than one page, more than
\* two pages
SourceSizes == {0, 1, BATCH_SIZE, BATCH_SIZE + 1, 2 * BATCH_SIZE + 1}

\* the k-th contact of the list
SourceContact(k) ==
  [id |-> 10 + k, firstName |-> Str(<<>>), lastName |-> Str(<<>>),
   email |-> Str(<<>>), phone |-> Str(<<>>), orgname |-> Str(<<>>)]

\* data.contacts of the response to limit=BATCH_SIZE&offset=o
SourcePage(o) ==
  IF o >= source THEN <<>>
  ELSE [k \in 1..(IF source - o < BATCH_SIZE THEN source - o ELSE BATCH_SIZE) |->
          SourceContact(o + k)]

\* a count as the CRM writes it in meta.total
RECURSIVE ToText(_)
ToText(n) ==
  IF n < 10 THEN <<Digits[n + 1]>>
  ELSE ToText(n \div 10) \o <<Digits[(n % 10) + 1]>>

\* data.meta?.total of a response: the size of the list, absent, or no number
SourceTotals == {Str(ToText(source)), Undefined, Str(<<"x">>)}

SourceInit ==
  /\ InitRun
  /\ AC_BASE_URL
  /\ AC_API_KEY
  /\ ~ENRICH
  /\ source \in SourceSizes
  /\ unit = NoUnit

SourceContactsResponse ==
  /\ pc = "await_contacts"
  /\ \E totalText \in SourceTotals :
       Becomes(fetchAllPrescribers(Cur, SourcePage(offset), totalText, FALSE))

SourceNext ==
  \/ Main
  \/ SourceContactsResponse
  \/ ContactsFail
  \/ StartLoop
  \/ FieldValuesResponse
  \/ FieldValuesFail
  \/ WriteData
  \/ WritePublic

SourceSpec == SourceInit /\ [][SourceNext]_vars

\* ------------------------------------------------------------------------
\* fetchFieldValues and the record literal of buildPrescriber, each called
\* once on inputs drawn from small sets
\* ------------------------------------------------------------------------
\* fv.field of a field value: two ids of FIELD_MAP and one that is not
UnitFieldIds == {4, 23, 99}

\* fv.value of a field value
UnitValues == {Null, Str(<<>>), Str(<<" ">>), Str(<<"x">>), Str(<<"y">>)}

\* data.fieldValues of a response
UnitFieldValues ==
  UNION { [1..n -> [field : UnitFieldIds, value : UnitValues]] : n \in 0..MaxFieldValues }

\* contact.firstName and contact.lastName
UnitFirstNames == {Str(<<>>), Str(<<" ">>), Str(<<"A">>)}

UnitLastNames == {Str(<<>>), Str(<<" ">>), Str(<<"B">>)}

UnitContacts ==
  { [id |-> 1, firstName |-> f, lastName |-> l, email |-> Str(<<>>),
     phone |-> Str(<<>>), orgname |-> Str(<<>>)] :
      f \in UnitFirstNames, l \in UnitLastNames }

\* the values fetchFieldValues can have mapped (never a falsy one); absent
\* members read as undefined
UnitDoctorFirstNames == {Undefined, Str(<<" ">>), Str(<<"D">>)}

UnitDoctorLastNames == {Undefined, Str(<<" ">>), Str(<<"E">>)}

AddressParts == <<"address1", "address2", "city", "state", "zip">>

PartValue(k) == Str(<<Digits[k + 1], "p">>)

\* the mapping with the address parts of `present` and the two name fields
FieldsWith(present, first, last) ==
  LET m == [name \in {"address1", "address2", "city", "state", "zip",
                      "doctorFirstName", "doctorLastName"} |->
              CASE name = "doctorFirstName" -> first
                [] name = "doctorLastName" -> last
                [] OTHER -> IF name \in present
                            THEN PartValue(IndexOf(AddressParts, name))
                            ELSE Undefined]
  IN [name \in {n \in DOMAIN m : m[n] # Undefined} |-> m[name]]

UnitFields ==
  { FieldsWith(present, first, last) :
      present \in SUBSET {AddressParts[k] : k \in 1..Len(AddressParts)},
      first \in UnitDoctorFirstNames, last \in UnitDoctorLastNames }

UnitInit ==
  /\ InitRun
  /\ ~AC_BASE_URL /\ ~AC_API_KEY /\ ~GOOGLE_KEY /\ ~ENRICH /\ ~DRY_RUN
  /\ GEOCODER = "nominatim"
  /\ source = 0
  /\ \/ \E fvs \in UnitFieldValues :
          unit = [NoUnit EXCEPT !.op = "fetchFieldValues", !.fieldValues = fvs]
     \/ \E c \in UnitContacts, f \in UnitFields :
          unit = [NoUnit EXCEPT !.op = "buildPrescriber", !.contact = c, !.fields = f]

\* fetchFieldValues on the response body
UnitFetchFieldValues ==
  /\ unit.op = "fetchFieldValues"
  /\ unit.result = Null
  /\ unit' = [unit EXCEPT !.result = [mapped |-> MapFieldValues(unit.fieldValues)]]
  /\ UNCHANGED <<config, run, twin, source, front>>

\* the record literal of buildPrescriber for a contact that was not geocoded
UnitBuildPrescriber ==
  /\ unit.op = "buildPrescriber"
  /\ unit.result = Null
  /\ unit' = [unit EXCEPT !.result = PrescriberRecord(unit.contact, unit.fields, Null)]
  /\ UNCHANGED <<config, run, twin, source, front>>

UnitNext ==
  \/ UnitFetchFieldValues
  \/ UnitBuildPrescriber

UnitSpec == UnitInit /\ [][UnitNext]_vars

\* ------------------------------------------------------------------------
\* The map page: pure functions of public/js/app.js
\* ------------------------------------------------------------------------
\* String.prototype.toUpperCase / toLowerCase on ASCII text
UpperOf(c) ==
  IF IsIn(LowerCase, c)
  THEN UpperCase[CHOOSE k \in 1..Len(LowerCase) : LowerCase[k] = c]
  ELSE c

LowerOf(c) ==
  IF IsIn(UpperCase, c)
  THEN LowerCase[CHOOSE k \in 1..Len(UpperCase) : UpperCase[k] = c]
  ELSE c

toUpperCase(str) == Str([k \in 1..Len(str.s) |-> UpperOf(str.s[k])])

toLowerCase(str) == Str([k \in 1..Len(str.s) |-> LowerOf(str.s[k])])

\* str.includes(part)
includes(str, part) ==
  \E k \in 0..(Len(str.s) - Len(part.s)) :
    SubSeq(str.s, k + 1, k + Len(part.s)) = part.s

STATE_CODES ==
  <<
     [name |-> <<"A", "L", "A", "B", "A", "M", "A">>, code |-> <<"A", "L">>],
     [name |-> <<"A", "L", "A", "S", "K", "A">>, code |-> <<"A", "K">>],
     [name |-> <<"A", "R", "I", "Z", "O", "N", "A">>, code |-> <<"A", "Z">>],
     [name |-> <<"A", "R", "K", "A", "N", "S", "A", "S">>, code |-> <<"A", "R">>],
     [name |-> <<"C", "A", "L", "I", "F", "O", "R", "N", "I", "A">>, code |-> <<"C", "A">>],
     [name |-> <<"C", "O", "L", "O", "R", "A", "D", "O">>, code |-> <<"C", "O">>],
     [name |-> <<"C", "O", "N", "N", "E", "C", "T", "I", "C", "U", "T">>, code |-> <<"C", "T">>],
     [name |-> <<"D", "E", "L", "A", "W", "A", "R", "E">>, code |-> <<"D", "E">>],
     [name |-> <<"F", "L", "O", "R", "I", "D", "A">>, code |-> <<"F", "L">>],
     [name |-> <<"G", "E", "O", "R", "G", "I", "A">>, code |-> <<"G", "A">>],
     [name |-> <<"H", "A", "W", "A", "I", "I">>, code |-> <<"H", "I">>],
     [name |-> <<"I", "D", "A", "H", "O">>, code |-> <<"I", "D">>],
     [name |-> <<"I", "L", "L", "I", "N", "O", "I", "S">>, code |-> <<"I", "L">>],
     [name |-> <<"I", "N", "D", "I", "A", "N", "A">>, code |-> <<"I", "N">>],
     [name |-> <<"I", "O", "W", "A">>, code |-> <<"I", "A">>],
     [name |-> <<"K", "A", "N", "S", "A", "S">>, code |-> <<"K", "S">>],
     [name |-> <<"K", "E", "N", "T", "U", "C", "K", "Y">>, code |-> <<"K", "Y">>],
     [name |-> <<"L", "O", "U", "I", "S", "I", "A", "N", "A">>, code |-> <<"L", "A">>],
     [name |-> <<"M", "A", "I", "N", "E">>, code |-> <<"M", "E">>],
     [name |-> <<"M", "A", "R", "Y", "L", "A", "N", "D">>, code |-> <<"M", "D">>],
     [name |-> <<"M", "A", "S", "S", "A", "C", "H", "U", "S", "E", "T", "T", "S">>, code |-> <<"M", "A">>],
     [name |-> <<"M", "I", "C", "H", "I", "G", "A", "N">>, code |-> <<"M", "I">>],
     [name |-> <<"M", "I", "N", "N", "E", "S", "O", "T", "A">>, code |-> <<"M", "N">>],
     [name |-> <<"M", "I", "S", "S", "I", "S", "S", "I", "P", "P", "I">>, code |-> <<"M", "S">>],
     [name |-> <<"M", "I", "S", "S", "O", "U", "R", "I">>, code |-> <<"M", "O">>],
     [name |-> <<"M", "O", "N", "T", "A", "N", "A">>, code |-> <<"M", "T">>],
     [name |-> <<"N", "E", "B", "R", "A", "S", "K", "A">>, code |-> <<"N", "E">>],
     [name |-> <<"N", "E", "V", "A", "D", "A">>, code |-> <<"N", "V">>],
     [name |-> <<"N", "E", "W", " ", "H", "A", "M", "P", "S", "H", "I", "R", "E">>, code |-> <<"N", "H">>],
     [name |-> <<"N", "E", "W", " ", "J", "E", "R", "S", "E", "Y">>, code |-> <<"N", "J">>],
     [name |-> <<"N", "E", "W", " ", "M", "E", "X", "I", "C", "O">>, code |-> <<"N", "M">>],
     [name |-> <<"N", "E", "W", " ", "Y", "O", "R", "K">>, code |-> <<"N", "Y">>],
     [name |-> <<"N", "O", "R", "T", "H", " ", "C", "A", "R", "O", "L", "I", "N", "A">>, code |-> <<"N", "C">>],
     [name |-> <<"N", "O", "R", "T", "H", " ", "D", "A", "K", "O", "T", "A">>, code |-> <<"N", "D">>],
     [name |-> <<"O", "H", "I", "O">>, code |-> <<"O", "H">>],
     [name |-> <<"O", "K", "L", "A", "H", "O", "M", "A">>, code |-> <<"O", "K">>],
     [name |-> <<"O", "R", "E", "G", "O", "N">>, code |-> <<"O", "R">>],
     [name |-> <<"P", "E", "N", "N", "S", "Y", "L", "V", "A", "N", "I", "A">>, code |-> <<"P", "A">>],
     [name |-> <<"R", "H", "O", "D", "E", " ", "I", "S", "L", "A", "N", "D">>, code |-> <<"R", "I">>],
     [name |-> <<"S", "O", "U", "T", "H", " ", "C", "A", "R", "O", "L", "I", "N", "A">>, code |-> <<"S", "C">>],
     [name |-> <<"S", "O", "U", "T", "H", " ", "D", "A", "K", "O", "T", "A">>, code |-> <<"S", "D">>],
     [name |-> <<"T", "E", "N", "N", "E", "S", "S", "E", "E">>, code |-> <<"T", "N">>],
     [name |-> <<"T", "E", "X", "A", "S">>, code |-> <<"T", "X">>],
     [name |-> <<"U", "T", "A", "H">>, code |-> <<"U", "T">>],
     [name |-> <<"V", "E", "R", "M", "O", "N", "T">>, code |-> <<"V", "T">>],
     [name |-> <<"V", "I", "R", "G", "I", "N", "I", "A">>, code |-> <<"V", "A">>],
     [name |-> <<"W", "A", "S", "H", "I", "N", "G", "T", "O", "N">>, code |-> <<"W", "A">>],
     [name |-> <<"W", "E", "S", "T", " ", "V", "I", "R", "G", "I", "N", "I", "A">>, code |-> <<"W", "V">>],
     [name |-> <<"W", "I", "S", "C", "O", "N", "S", "I", "N">>, code |-> <<"W", "I">>],
     [name |-> <<"W", "Y", "O", "M", "I", "N", "G">>, code |-> <<"W", "Y">>],
     [name |-> <<"D", "I", "S", "T", "R", "I", "C", "T", " ", "O", "F", " ", "C", "O", "L", "U", "M", "B", "I", "A">>, code |-> <<"D", "C">>]
  >>

VALID_CODES == {STATE_CODES[k].code : k \in 1..Len(STATE_CODES)}

\* STATE_CODES[upper]: the code of a full name, undefined for any other key
CodeOfName(upper) ==
  IF \E k \in 1..Len(STATE_CODES) : STATE_CODES[k].name = upper.s
  THEN Str(STATE_CODES[CHOOSE k \in 1..Len(STATE_CODES) : STATE_CODES[k].name = upper.s].code)
  ELSE Undefined

\* only 2-letter codes are recognized: the lookup of full names is left out
normalizeState_CodesOnly(raw) ==
  IF ~Truthy(raw) THEN Null
  ELSE LET upper == toUpperCase(Trim(raw))
       IN IF upper.s \in VALID_CODES THEN upper ELSE Null

normalizeState(raw) ==
  IF ~Truthy(raw) THEN Null
  ELSE LET upper == toUpperCase(Trim(raw))
       IN IF upper.s \in VALID_CODES THEN upper
          ELSE IF Truthy(CodeOfName(upper)) THEN CodeOfName(upper)
          ELSE Null

\* p.address?.state
StateOf(p) ==
  LET address == Get(p, "address")
  IN IF address \in {Undefined, Null} THEN Undefined ELSE Get(address, "state")

\* p.lat && p.lng as a condition
HasCoords(p) == Truthy(Get(p, "lat")) /\ Truthy(Get(p, "lng"))

\* the state filter ignored: every record whatever is selected
getFilteredPrescribers_IgnoresState(s) == s.allPrescribers

getFilteredPrescribers(s) ==
  IF ~Truthy(s.stateFilter) THEN s.allPrescribers
  ELSE SelectSeq(s.allPrescribers, LAMBDA p : normalizeState(StateOf(p)) = s.stateFilter)

\* Earth radius in miles
R == 3959

\* R * pi / 180 in thousandths of a mile: the arc of one degree of a great circle
ArcPerDegree == (R * 31416) \div 1800

Abs(n) == IF n < 0 THEN 0 - n ELSE n

\* haversine in thousandths of a mile, for two points of one meridian
\* (a = sin^2(dLat / 2), so the distance is R * |dLat|) and for two points
\* of the equator (a = sin^2(dLon / 2)); NaN when a coordinate is NaN
haversine(lat1, lon1, lat2, lon2) ==
  IF \E v \in {lat1, lon1, lat2, lon2} : v.t # "num" THEN NaN
  ELSE CASE lon1.v = lon2.v -> Num(ArcPerDegree * Abs(lat2.v - lat1.v))
         [] lon1.v # lon2.v /\ lat1.v = 0 /\ lat2.v = 0 /\ Abs(lon2.v - lon1.v) <= 180 ->
              Num(ArcPerDegree * Abs(lon2.v - lon1.v))

\* p.distance <= radiusMiles, the distance being in thousandths of a mile:
\* false when either side is NaN
WithinRadius(p, radiusMiles) ==
  /\ p.distance.t = "num"
  /\ radiusMiles.t = "num"
  /\ p.distance.v <= 1000 * radiusMiles.v

\* { ...p, distance }
WithDistance(p, d) ==
  [k \in DOMAIN p \cup {"distance"} |-> IF k = "distance" THEN d ELSE p[k]]

\* xs.sort((a, b) => a.distance - b.distance): stable
RECURSIVE InsertByDistance(_, _)
InsertByDistance(sorted, p) ==
  IF sorted = <<>> THEN <<p>>
  ELSE IF p.distance.v - Head(sorted).distance.v < 0 THEN <<p>> \o sorted
  ELSE <<Head(sorted)>> \o InsertByDistance(Tail(sorted), p)

RECURSIVE SortByDistance(_)
SortByDistance(xs) ==
  IF xs = <<>> THEN <<>>
  ELSE InsertByDistance(SortByDistance(SubSeq(xs, 1, Len(xs) - 1)), xs[Len(xs)])

\* the records within the radius: without the filter on the distance
Nearby_AnyDistance(base, lat, lng, radiusMiles) ==
  SortByDistance(
    LET withCoords == SelectSeq(base, HasCoords)
    IN [k \in 1..Len(withCoords) |->
          WithDistance(withCoords[k],
                       haversine(lat, lng, withCoords[k].lat, withCoords[k].lng))])

\* base.filter(coords).map(distance).filter(within).sort(by distance)
Nearby(base, lat, lng, radiusMiles) ==
  LET withCoords == SelectSeq(base, HasCoords)
      measured == [k \in 1..Len(withCoords) |->
                     WithDistance(withCoords[k],
                                  haversine(lat, lng, withCoords[k].lat, withCoords[k].lng))]
  IN SortByDistance(SelectSeq(measured, LAMBDA p : WithinRadius(p, radiusMiles)))

\* prescribers.slice(0, 100)
FirstHundred(xs) == SubSeq(xs, 1, IF Len(xs) < 100 THEN Len(xs) ELSE 100)

showPrescribers(s, list, isFiltered) ==
  [s EXCEPT !.markers = SelectSeq(list, HasCoords),
            !.listed = list,
            !.displayList = IF isFiltered THEN list ELSE FirstHundred(list),
            !.drawnBy = 0]

\* order of two 2-letter codes by code units
LetterIndex(c) == CHOOSE k \in 1..Len(UpperCase) : UpperCase[k] = c

CodeBefore(a, b) ==
  \/ LetterIndex(a[1]) < LetterIndex(b[1])
  \/ a[1] = b[1] /\ LetterIndex(a[2]) < LetterIndex(b[2])

\* the codes of the list, each once, in ascending order of code units
RECURSIVE InsertCode(_, _)
InsertCode(sorted, c) ==
  IF sorted = <<>> THEN <<c>>
  ELSE IF c = Head(sorted) THEN sorted
  ELSE IF CodeBefore(c.s, Head(sorted).s) THEN <<c>> \o sorted
  ELSE <<Head(sorted)>> \o InsertCode(Tail(sorted), c)

RECURSIVE SortedCodes(_)
SortedCodes(xs) ==
  IF xs = <<>> THEN <<>>
  ELSE LET c == normalizeState(StateOf(Head(xs)))
       IN IF Truthy(c) THEN InsertCode(SortedCodes(Tail(xs)), c)
          ELSE SortedCodes(Tail(xs))

populateStateFilter(s) == [s EXCEPT !.stateOptions = SortedCodes(s.allPrescribers)]

\* /^\d{5}$/.test(zip)
FiveDigits(zip) == Len(zip.s) = 5 /\ \A k \in 1..5 : IsIn(Digits, zip.s[k])

\* ------------------------------------------------------------------------
\* The map page: the document it loads and what the user can enter
\* ------------------------------------------------------------------------
\* a record of prescribers.json, with the fields the page reads
MapRecord(id, name, state, lat, lng) ==
  [id |-> Str(id), name |-> Str(name), address |-> [state |-> state], lat |-> lat, lng |-> lng]

\* prescribers.json: records in the order of their names, on one meridian;
\* one lacks a coordinate and one has a state outside the US
Dataset ==
  << MapRecord(<<"1">>, <<"D", "r", " ", "A", "l">>, Str(<<"N", "Y">>), Num(41), Num(-73)),
     MapRecord(<<"2">>, <<"B", "o">>, Str(<<"N", "e", "w", " ", "Y", "o", "r", "k">>),
               Num(42), Num(-73)),
     MapRecord(<<"3">>, <<"C", "y">>, Str(<<" ", "n", "y", " ">>), Num(44), Num(-73)),
     MapRecord(<<"4">>, <<"D", "i">>, Str(<<"O", "n", "t", "a", "r", "i", "o">>),
               Num(41), Num(-73)),
     MapRecord(<<"5">>, <<"D", "r", " ", "E", "d">>, Str(<<"C", "T">>), Null, Num(-73)) >>

\* what the user types into #zip-input
ZipTexts == {Str(<<" ", "1", "0", "5", "8", "0">>)}

\* the options of #radius-select
RadiusOptions == {Str(<<"1", "0">>), Str(<<"1", "0", "0">>)}

\* what the user types into #doctor-search
DoctorQueries == {Str(<<"D", "R", " ">>), Str(<<"d">>), Str(<<"z", "z">>)}

\* results[0] of a zip lookup that found the zip
ZipResults ==
  { [lat |-> Str(<<"4", "1">>), lon |-> Str(<<"-", "7", "3">>)] }

\* what geocodeZip resolves to: null when the request fails, the response
\* is not ok or the result list is empty
ZipAnswers ==
  {Null} \cup {[lat |-> parseFloat(r.lat), lng |-> parseFloat(r.lon)] : r \in ZipResults}

\* `${v}` of a coordinate in a data attribute
TemplateText(v) ==
  CASE v.t = "num" -> Str(IF v.v < 0 THEN <<"-">> \o ToText(0 - v.v) ELSE ToText(v.v))
    [] v.t = "null" -> Str(<<"n", "u", "l", "l">>)
    [] v.t = "undefined" -> Str(<<"u", "n", "d", "e", "f", "i", "n", "e", "d">>)

\* ------------------------------------------------------------------------
\* The map page: its handlers as steps of the page's state
\* ------------------------------------------------------------------------
\* searchLat = null; searchLng = null; if (searchCircle) remove it
RemoveFirst(xs, x) ==
  IF \E k \in 1..Len(xs) : xs[k] = x
  THEN LET at == CHOOSE k \in 1..Len(xs) : xs[k] = x /\ \A j \in 1..(k - 1) : xs[j] # x
       IN SubSeq(xs, 1, at - 1) \o SubSeq(xs, at + 1, Len(xs))
  ELSE xs

\* a truthy searchCircle is an overlay object
IsCircle(c) == c \notin {Undefined, Null}

\* the coordinates are reset and the overlay is left on the map
ClearedSearch_KeepsOverlay(s) == [s EXCEPT !.searchLat = Null, !.searchLng = Null]

ClearedSearch(s) ==
  [s EXCEPT !.searchLat = Null, !.searchLng = Null,
            !.circles = IF IsCircle(s.searchCircle) THEN RemoveFirst(@, s.searchCircle) ELSE @,
            !.searchCircle = IF IsCircle(s.searchCircle) THEN Null ELSE @]

\* the listeners of the search button, the clear button, #zip-input,
\* #state-filter and the name search are added
bindEvents(s) == [s EXCEPT !.bound = TRUE]

\* the listeners are added before the record list is awaited
AfterInit_BindsFirst(s) ==
  [s EXCEPT !.phase = "loading", !.mapView = HomeView, !.loadingHidden = FALSE,
            !.bound = TRUE]

\* init up to the await of fetch in loadData: initMap and the start of loadData
AfterInit(s) == [s EXCEPT !.phase = "loading", !.mapView = HomeView, !.loadingHidden = FALSE]

\* loadData after the document arrived, then bindEvents
AfterLoaded(s, data) ==
  LET s1 == [s EXCEPT !.allPrescribers = IF "prescribers" \in DOMAIN data THEN data.prescribers
                                          ELSE <<>>,
                      !.dataInfo = [t |-> "generated", generated |-> Get(data, "generated"),
                                    total |-> Get(data, "total"),
                                    geocoded |-> Get(data, "geocoded")]]
      s2 == populateStateFilter(s1)
      s3 == showPrescribers(s2, s2.allPrescribers, FALSE)
  IN bindEvents([s3 EXCEPT !.loadingHidden = TRUE, !.phase = "ready"])

\* loadData when fetch fails, the response is not ok or is no JSON, then bindEvents
AfterLoadFailed(s) ==
  bindEvents([s EXCEPT !.dataInfo = [t |-> "error"], !.loadingHidden = TRUE,
                       !.phase = "ready"])

\* the state is applied and the radius search is left as it is
applyStateFilter_KeepsSearch(s) ==
  LET state == s.stateFilter
      filtered == getFilteredPrescribers(s)
      s1 == [s EXCEPT !.resultCount = IF Truthy(state)
                                      THEN [t |-> "in", n |-> Len(filtered), state |-> state]
                                      ELSE Str(<<>>)]
  IN [showPrescribers(s1, filtered, Truthy(state)) EXCEPT !.alerted = ""]

applyStateFilter(s) ==
  LET state == s.stateFilter
      filtered == getFilteredPrescribers(s)
      s1 == [ClearedSearch(s) EXCEPT
               !.resultCount = IF Truthy(state)
                               THEN [t |-> "in", n |-> Len(filtered), state |-> state]
                               ELSE Str(<<>>)]
      s2 == showPrescribers(s1, filtered, Truthy(state))
      withCoords == SelectSeq(filtered, HasCoords)
  IN [s2 EXCEPT !.alerted = "",
                !.mapView = IF Truthy(state)
                            THEN IF Len(withCoords) > 0
                                 THEN [t |-> "fitBounds", of |-> withCoords] ELSE @
                            ELSE HomeView]

\* doSearch up to the await of geocodeZip
doSearch(s) ==
  LET zip == Trim(s.zipInput)
  IN IF ~FiveDigits(zip)
     THEN [s EXCEPT !.alerted = "Please enter a valid 5-digit zip code."]
     ELSE [s EXCEPT !.alerted = "",
                    !.pending = Append(@, [n |-> s.searches + 1, zip |-> zip,
                                           radiusMiles |-> parseInt(s.radiusSelect)]),
                    !.searches = @ + 1]

\* doSearch after geocodeZip found the zip
SearchResult(s, call, answer) ==
  LET s1 == [s EXCEPT !.searchLat = answer.lat, !.searchLng = answer.lng]
      nearby == Nearby(getFilteredPrescribers(s1), s1.searchLat, s1.searchLng,
                       call.radiusMiles)
      s2 == showPrescribers(s1, nearby, TRUE)
      circle == [lat |-> s2.searchLat, lng |-> s2.searchLng, miles |-> call.radiusMiles]
  IN [s2 EXCEPT !.circles = Append(IF IsCircle(s2.searchCircle)
                                   THEN RemoveFirst(@, s2.searchCircle) ELSE @, circle),
                !.searchCircle = circle,
                !.zipMarkers = Append(@, [lat |-> s2.searchLat, lng |-> s2.searchLng,
                                          zip |-> call.zip]),
                !.mapView = [t |-> "fitBounds", of |-> circle],
                !.resultCount = [t |-> "within", n |-> Len(nearby),
                                 radiusMiles |-> call.radiusMiles, zip |-> call.zip],
                !.drawnBy = call.n,
                !.alerted = ""]

\* a zip that was not found ends the search on display
AfterGeocodeZip_ClearsOnFailure(s, call, answer) ==
  IF answer = Null
  THEN [ClearedSearch(s) EXCEPT !.alerted = "Could not find location for zip code"]
  ELSE SearchResult(s, call, answer)

\* the answer is dropped when a later call of doSearch has started
AfterGeocodeZip_LatestOnly(s, call, answer) ==
  IF answer = Null THEN [s EXCEPT !.alerted = "Could not find location for zip code"]
  ELSE IF call.n # s.searches THEN [s EXCEPT !.alerted = ""]
  ELSE SearchResult(s, call, answer)

\* doSearch from the answer of geocodeZip on
AfterGeocodeZip(s, call, answer) ==
  IF answer = Null THEN [s EXCEPT !.alerted = "Could not find location for zip code"]
  ELSE SearchResult(s, call, answer)

\* the selected state survives the clearing
clearSearch_KeepsState(s) ==
  LET s1 == [ClearedSearch(s) EXCEPT !.zipInput = Str(<<>>), !.resultCount = Str(<<>>)]
  IN [showPrescribers(s1, getFilteredPrescribers(s1), FALSE) EXCEPT !.mapView = HomeView,
                                                                    !.alerted = ""]

clearSearch(s) ==
  LET s1 == [ClearedSearch(s) EXCEPT !.zipInput = Str(<<>>), !.stateFilter = Str(<<>>),
                                     !.resultCount = Str(<<>>)]
  IN [showPrescribers(s1, s1.allPrescribers, FALSE) EXCEPT !.mapView = HomeView,
                                                            !.alerted = ""]

\* the doctor is centred and the search on display is kept
selectDoctor_KeepsSearch(s, p) ==
  IF ~Truthy(Get(p, "lat")) \/ ~Truthy(Get(p, "lng"))
  THEN [s EXCEPT !.alerted = "This doctor does not have a mapped location."]
  ELSE LET s1 == [s EXCEPT !.zipInput = Str(<<>>), !.stateFilter = Str(<<>>), !.alerted = ""]
       IN [showPrescribers(s1, s1.allPrescribers, FALSE) EXCEPT
             !.mapView = [t |-> "setView", lat |-> p.lat, lng |-> p.lng, zoom |-> 15],
             !.resultCount = [t |-> "selected", name |-> p.name]]

selectDoctor(s, p) ==
  IF ~Truthy(Get(p, "lat")) \/ ~Truthy(Get(p, "lng"))
  THEN [s EXCEPT !.alerted = "This doctor does not have a mapped location."]
  ELSE LET s1 == [ClearedSearch([s EXCEPT !.zipInput = Str(<<>>), !.stateFilter = Str(<<>>)])
                    EXCEPT !.alerted = ""]
       IN [showPrescribers(s1, s1.allPrescribers, FALSE) EXCEPT
             !.mapView = [t |-> "setView", lat |-> p.lat, lng |-> p.lng, zoom |-> 15],
             !.resultCount = [t |-> "selected", name |-> p.name]]

\* first twenty of a list
FirstTwenty(xs) == SubSeq(xs, 1, IF Len(xs) < 20 THEN Len(xs) ELSE 20)

\* the records the input listener of #doctor-search puts in the dropdown
\* for the text of the input, none when the text is shorter than two characters
DoctorMatches(s) ==
  LET query == toLowerCase(Trim(s.doctorSearch))
  IN IF Len(query.s) < 2 THEN <<>>
     ELSE FirstTwenty(SelectSeq(s.allPrescribers,
                                LAMBDA p : Truthy(Get(p, "name"))
                                           /\ includes(toLowerCase(p.name), query)))

\* the click listener of an item of the dropdown, p being its record
DoctorResultClick(s, p) == [selectDoctor(s, p) EXCEPT !.doctorSearch = p.name]

\* the click listener of the k-th card of the list
CardClick(s, k) ==
  LET lat == parseFloat(TemplateText(Get(s.displayList[k], "lat")))
      lng == parseFloat(TemplateText(Get(s.displayList[k], "lng")))
  IN [s EXCEPT !.alerted = "",
               !.mapView = IF Truthy(lat) /\ Truthy(lng)
                           THEN [t |-> "setView", lat |-> lat, lng |-> lng, zoom |-> 14]
                           ELSE @]

\* ------------------------------------------------------------------------
\* The map page: events
\* ------------------------------------------------------------------------
\* prescribers.json as the pipeline writes it, and a document without a list
Documents ==
  { [generated |-> Num(1), total |-> Num(Len(Dataset)), geocoded |-> Num(4),
     prescribers |-> Dataset],
    [generated |-> Num(1)] }

\* the visitor is let in (a stored session or the password): init starts
InitPage ==
  /\ phase = "gate"
  /\ Shows(AfterInit(Page))

LoadDataOk ==
  /\ phase = "loading"
  /\ \E data \in Documents :
       Shows(AfterLoaded(Page, data))

LoadDataFail ==
  /\ phase = "loading"
  /\ Shows(AfterLoadFailed(Page))

\* the user picks another option of #state-filter: its change listener runs
ChangeStateFilter ==
  /\ bound
  /\ \E v \in {Str(<<>>)} \cup {stateOptions[k] : k \in 1..Len(stateOptions)} :
       /\ v # stateFilter
       /\ Shows(applyStateFilter([Page EXCEPT !.stateFilter = v]))

\* the user leaves or retypes the zip, picks a radius, and clicks #search-btn
\* or presses Enter in #zip-input (no other listener reads the two inputs)
DoSearch ==
  /\ bound
  /\ \E z \in ZipTexts \cup {zipInput}, r \in RadiusOptions :
       /\ FiveDigits(Trim(z)) => searches < MaxSearches
       /\ Shows(doSearch([Page EXCEPT !.zipInput = z, !.radiusSelect = r]))

\* geocodeZip of a waiting call resolves
GeocodeZipReturns ==
  \E k \in 1..Len(pending), answer \in ZipAnswers :
    Shows(AfterGeocodeZip([Page EXCEPT !.pending = RemoveFirst(@, pending[k])],
                          pending[k], answer))

ClearSearch ==
  /\ bound
  /\ Shows(clearSearch(Page))

\* the user types a name into #doctor-search and clicks an item of the
\* dropdown the input listener built for it
ClickDoctorResult ==
  /\ bound
  /\ \E q \in DoctorQueries :
       LET matches == DoctorMatches([Page EXCEPT !.doctorSearch = q])
       IN \E k \in 1..Len(matches) : Shows(DoctorResultClick(Page, matches[k]))

ClickCard ==
  /\ bound
  /\ \E k \in 1..Len(displayList) : Shows(CardClick(Page, k))

FrontInit ==
  /\ InitRun
  /\ ~AC_BASE_URL /\ ~AC_API_KEY /\ ~GOOGLE_KEY /\ ~ENRICH /\ ~DRY_RUN
  /\ GEOCODER = "nominatim"
  /\ source = 0
  /\ unit = NoUnit

FrontNext ==
  \/ InitPage
  \/ LoadDataOk
  \/ LoadDataFail
  \/ ChangeStateFilter
  \/ DoSearch
  \/ GeocodeZipReturns
  \/ ClearSearch
  \/ ClickDoctorResult
  \/ ClickCard

FrontSpec == FrontInit /\ [][FrontNext]_vars

\* ------------------------------------------------------------------------
\* normalizeState and getFilteredPrescribers on their own
\* ------------------------------------------------------------------------
\* a text as it is, in lower case, and in lower case between blanks
Spellings(chars) ==
  { Str(chars), toLowerCase(Str(chars)), Str(<<" ">> \o toLowerCase(Str(chars)).s \o <<" ", " ">>) }

\* values of address.state that are no state of the US
ForeignStates ==
  { Undefined, Null, Str(<<>>), Str(<<" ">>), Str(<<"O", "n", "t", "a", "r", "i", "o">>),
    Str(<<"X", "X">>), Str(<<"N", " ", "Y">>), Str(<<"N", "Y", ".">>),
    Str(<<"N", "E", "W", "Y", "O", "R", "K">>), Str(<<"U", "S", "A">>) }

\* values of address.state: every name and every code of STATE_CODES in
\* three spellings, and the values that are no state
RawStates ==
  ForeignStates
    \cup UNION {Spellings(STATE_CODES[k].name) : k \in 1..Len(STATE_CODES)}
    \cup UNION {Spellings(STATE_CODES[k].code) : k \in 1..Len(STATE_CODES)}

\* the record list of a page that loaded one record of the given state
OneRecord(raw) ==
  << [id |-> Str(<<"1">>), name |-> Str(<<"A", "l">>),
      address |-> IF raw = Undefined THEN [city |-> Str(<<>>)] ELSE [state |-> raw],
      lat |-> Num(41), lng |-> Num(-73)] >>

\* the values #state-filter can take: "" and the codes
FilterValues == {Str(<<>>)} \cup {Str(c) : c \in VALID_CODES}

StateInit ==
  /\ InitRun
  /\ ~AC_BASE_URL /\ ~AC_API_KEY /\ ~GOOGLE_KEY /\ ~ENRICH /\ ~DRY_RUN
  /\ GEOCODER = "nominatim"
  /\ source = 0
  /\ \E raw \in RawStates : unit = [NoUnit EXCEPT !.op = "normalizeState", !.raw = raw]

\* normalizeState on the value, and getFilteredPrescribers on a list of one
\* record of that state under every value of #state-filter
UnitNormalizeState ==
  /\ unit.op = "normalizeState"
  /\ unit.result = Null
  /\ unit' = [unit EXCEPT !.result =
                [ code |-> normalizeState(StateOf(OneRecord(unit.raw)[1])),
                  views |-> [v \in FilterValues |->
                               getFilteredPrescribers([allPrescribers |-> OneRecord(unit.raw),
                                                       stateFilter |-> v])] ]]
  /\ UNCHANGED <<config, run, twin, source, front>>

StateNext == UnitNormalizeState

StateSpec == StateInit /\ [][StateNext]_vars

\* ------------------------------------------------------------------------
\* Properties
\* ------------------------------------------------------------------------
Records == 1..Len(built)

KnownSources == {SourceNominatim, SourceGoogle}

\* C1: every record built has lat, lng and geoSource all non-null, with a
\* known geoSource, when its geocode (full address or zip fallback) returned
\* a result, whatever the result's latitude and longitude, and all null
\* when the geocode returned null or was not attempted; lat is never set
\* without lng, nor lng without lat.
C1_CoordinatesAllOrNone ==
  \A k \in Records :
    LET p == built[k]
        g == geoLog[k].geo
    IN /\ (p.lat = Null) = (p.lng = Null)
       /\ (p.lat = Null) = (p.geoSource = Null)
       /\ g # Null => p.lat # Null /\ p.lng # Null /\ p.geoSource \in KnownSources
       /\ g = Null => p.lat = Null /\ p.lng = Null /\ p.geoSource = Null

\* C2: a failure of one contact's field-values fetch or of its geocode call
\* does not end the run: the run is never aborted by such a failure, and a
\* run that has ended after fetching its contacts has one record for each.
C2_PerContactFailureContinues ==
  /\ abortCause \notin {"fieldValues", "geocode"}
  /\ (pc = "exit" /\ abortCause \notin {"config", "contacts"}) => Len(built) = Len(all)

\* C3: geocode never throws: each of its calls returns null or a result
\* {lat, lng, source} to buildPrescriber.
C3_GeocodeNeverThrows ==
  /\ abortCause # "geocode"
  /\ \A k \in 1..Len(queries) :
       (k < Len(queries) \/ pc \notin {"await_sleep", "await_geocode"}) =>
         queries[k].result # Undefined

\* C4: a run that aborts on missing credentials or on a failed contact-list
\* call exits non-zero with both output files untouched; with missing
\* credentials no network request is ever sent.
C4_AbortWritesNothing ==
  /\ (pc = "exit" /\ abortCause \in {"config", "contacts"}) =>
       /\ exitCode # 0
       /\ dataFile = OldFile
       /\ publicFile = OldFile
  /\ (~AC_BASE_URL \/ ~AC_API_KEY) =>
       /\ ~networkUsed
       /\ pc \in {"start", "exit"}
       /\ pc = "exit" => abortCause = "config" /\ exitCode = 1
  /\ pc = "await_contacts" => abortCause = "" /\ dataFile = OldFile /\ publicFile = OldFile

\* C4 witness: the contact-list call failed on its second page
C4_Witness ==
  /\ pc = "exit"
  /\ abortCause = "contacts"
  /\ Len(all) > 0
  /\ exitCode = 1

\* C5 as stated: in --dry-run mode nothing is written and the run exits 0;
\* otherwise the two copies are identical whenever either of them has been
\* written by the run.
C5_CopiesIdenticalWheneverWritten ==
  /\ DRY_RUN => dataFile = OldFile /\ publicFile = OldFile
  /\ (DRY_RUN /\ output # Null) => pc = "exit" /\ exitCode = 0
  /\ (dataFile # OldFile \/ publicFile # OldFile) => dataFile = publicFile

\* C5 as amended: in --dry-run mode nothing is written and the run exits 0;
\* otherwise data/prescribers.json is written first and public/prescribers
\* .json second, each with the run's output document, so the public copy is
\* never written without an identical data copy, and both copies are
\* identical once the run has exited 0.
C5_CopiesIdenticalAfterExit ==
  /\ DRY_RUN => dataFile = OldFile /\ publicFile = OldFile
  /\ (DRY_RUN /\ output # Null) => pc = "exit" /\ exitCode = 0
  /\ dataFile # OldFile => dataFile = Stringify(output)
  /\ publicFile # OldFile => publicFile = dataFile
  /\ (pc = "exit" /\ exitCode = 0 /\ ~DRY_RUN) =>
       dataFile = Stringify(output) /\ publicFile = dataFile

\* C5 witness: a run without --dry-run has written two records and exited 0
C5_Witness ==
  /\ pc = "exit"
  /\ exitCode = 0
  /\ ~DRY_RUN
  /\ output # Null
  /\ Len(output.prescribers) = 2
  /\ publicFile = Stringify(output)

\* the loop of fetchAllPrescribers breaks on this page
StopPage(page) == AtLeast(page.count, page.total) \/ page.n = 0

\* C6 as stated: fetchAllPrescribers terminates for every sequence of page
\* responses: the run always gets past the contact-list calls.
C6_PagingTerminates == <>(pc \notin {"start", "await_contacts"})

\* C6 as amended: fetchAllPrescribers requests offsets 0, 100, 200, ... one
\* page at a time and returns at the first page after which the accumulated
\* count is >= the total reported on that page or the page is empty; it
\* goes on with the next page after every other page (so it returns only
\* if such a page arrives).
C6_StopsAtFirstStopPage ==
  /\ pc = "fetched" => lastPage # Null /\ StopPage(lastPage)
  /\ (pc = "await_contacts" /\ lastPage # Null) => ~StopPage(lastPage)
  /\ lastPage # Null => lastPage.count = Len(all)
  /\ (pc = "await_contacts" /\ lastPage = Null) => offset = 0
  /\ (pc = "await_contacts" /\ lastPage # Null /\ lastPage.offset < MaxOffset) =>
       offset = lastPage.offset + BATCH_SIZE
  /\ pc = "fetched" => lastPage.offset = offset

\* C6 witness: the second page was empty while the total of 2 it reported
\* was still above the one contact accumulated
C6_Witness ==
  /\ pc = "fetched"
  /\ offset = BATCH_SIZE
  /\ lastPage.n = 0
  /\ lastPage.total = Num(2)
  /\ Len(all) = 1

\* C7: geocoder requests are serialized: at most one is in flight, none is
\* in flight while geocodeNominatim sleeps, the first Nominatim request of a
\* run is sent without a sleep and every later one (the zip fallback of the
\* same record included) right after a sleep of 1100 ms that began when the
\* previous call had returned.
C7_NominatimSerialized ==
  /\ inFlight \in {0, 1}
  /\ (inFlight = 1) = (pc = "await_geocode")
  /\ geocodeCount = 0 => lastDelay = 0
  /\ geocodeCount = 1 => lastDelay = 0
  /\ geocodeCount > 1 => lastDelay = SLEEP_MS
  /\ pc = "await_sleep" => geocodeCount > 0 /\ queries[Len(queries)].result = Undefined
  /\ (pc = "await_geocode" /\ backend = "nominatim") =>
       geocodeCount > 0 /\ ~(GEOCODER = "google" /\ GOOGLE_KEY)

\* C7 witness: the zip fallback of a record is in flight as the second
\* Nominatim request of the run, sent after the sleep
C7_Witness ==
  /\ pc = "await_geocode"
  /\ backend = "nominatim"
  /\ geocodeCount = 2
  /\ Len(queries) = 2
  /\ lastDelay = SLEEP_MS

\* the geocode calls of a record, as buildPrescriber may make them: at most
\* one for the full address, then at most one for "<zip>, USA"
CallsAsSpecified(full, zip, calls) ==
  /\ Len(calls) <= 2
  /\ Len(calls) >= 1 => full # Null /\ calls[1].address = full
  /\ Len(calls) = 2 =>
       /\ calls[1].result = Null
       /\ zip # Null
       /\ calls[2].address = Str(zip.s \o <<",", " ", "U", "S", "A">>)
  /\ full = Null => calls = <<>>

\* C8: the geocoder is called only for a non-empty full address, the zip
\* fallback "<zip>, USA" only after the full-address call returned null and
\* only with a zip; at most two calls per record, the full-address call and
\* the zip call each made at most once; a record without address.full has made
\* no call and has no coordinates.
C8_GeocodeCallsPerRecord ==
  /\ \A k \in Records :
       /\ CallsAsSpecified(built[k].address.full, built[k].address.zip, geoLog[k].queries)
       /\ built[k].address.full = Null => built[k].lat = Null /\ built[k].lng = Null
       /\ geoLog[k].geo # Null =>
            geoLog[k].geo = geoLog[k].queries[Len(geoLog[k].queries)].result
  /\ pc \in {"await_sleep", "await_geocode"} =>
       CallsAsSpecified(Or(buildAddress(fields), Null), Or(Get(fields, "zip"), Null), queries)

\* C8 witness: a record whose full-address call returned null and whose zip
\* fallback found it, next to a record without address
C8_Witness ==
  /\ Len(built) = 2
  /\ \E k \in Records :
       /\ Len(geoLog[k].queries) = 2
       /\ built[k].lat # Null
       /\ built[k].lng # Null
  /\ \E k \in Records :
       /\ built[k].address.full = Null
       /\ geoLog[k].queries = <<>>

HasCoordinates(p) == p.lat # Null /\ p.lng # Null

HasNoAddress(p) == p.address.full = Null

\* number of records of xs with both coordinates, and without address.full
CountCoordinates(xs) == Cardinality({k \in 1..Len(xs) : HasCoordinates(xs[k])})

CountNoAddress(xs) == Cardinality({k \in 1..Len(xs) : HasNoAddress(xs[k])})

\* C9: in the output document total is the number of records (one per
\* fetched contact), geocoded the number of records with both coordinates,
\* noAddress the number of records without address.full, and
\* geocoded + noAddress <= total.
C9_OutputCounts ==
  output # Null =>
    /\ output.total = Len(output.prescribers)
    /\ output.total = Len(all)
    /\ output.geocoded = CountCoordinates(output.prescribers)
    /\ output.noAddress = CountNoAddress(output.prescribers)
    /\ output.geocoded + output.noAddress <= output.total

\* C9 witness: a document of two records with an address, one geocoded and
\* one whose geocode failed
C9_Witness ==
  /\ output # Null
  /\ output.total = 2
  /\ output.geocoded = 1
  /\ output.noAddress = 0

\* the bijections of 1..n
Bijections(n) == {f \in [1..n -> 1..n] : \A a, b \in 1..n : f[a] = f[b] => a = b}

\* C10: the prescribers list of the output document is in ascending order
\* of name (each name compares <= the next) and is the records built from
\* the fetched contacts, rearranged, with equal names in fetch order.
C10_SortedByName ==
  output # Null =>
    LET out == output.prescribers
    IN /\ Len(out) = Len(built)
       /\ prescribers = out
       /\ \A k \in 1..(Len(out) - 1) : localeCompare(out[k].name, out[k + 1].name) <= 0
       /\ \E f \in Bijections(Len(out)) :
            /\ \A k \in 1..Len(out) : out[k] = built[f[k]]
            /\ \A j, k \in 1..Len(out) :
                 (j < k /\ out[j].name = out[k].name) => f[j] < f[k]

\* C10 witness: two records fetched in descending order of name
C10_Witness ==
  /\ output # Null
  /\ Len(built) = 2
  /\ localeCompare(built[1].name, built[2].name) > 0
  /\ output.prescribers = <<built[2], built[1]>>

\* C11: two runs of the pipeline that receive the same responses under the
\* same flags build the same document, its generated timestamp apart: the
\* same prescribers array (equal-named records in the same order) and the
\* same counts, whatever an earlier run left on disk; up to there both make
\* the same requests and count the same geocode calls.
C11_RerunSameRecords ==
  /\ (output # Null) = (twin.output # Null)
  /\ output # Null =>
       /\ output.prescribers = twin.output.prescribers
       /\ output.total = twin.output.total
       /\ output.geocoded = twin.output.geocoded
       /\ output.noAddress = twin.output.noAddress
  /\ output = Null =>
       /\ twin.prescribers = prescribers
       /\ twin.geocodeCount = geocodeCount
       /\ twin.queries = queries
  /\ twin.pc = pc

\* C11 witness: both runs have built a document of two equal-named,
\* different records after two geocode calls, with different timestamps,
\* the twin over the files of an earlier run
C11_Witness ==
  /\ pc = "write_data"
  /\ twin.pc = "write_data"
  /\ twin.dataFile = PriorFile
  /\ dataFile = OldFile
  /\ output.generated # twin.output.generated
  /\ Len(twin.output.prescribers) = 2
  /\ twin.output.prescribers[1].name = twin.output.prescribers[2].name
  /\ twin.output.prescribers[1] # twin.output.prescribers[2]
  /\ twin.geocodeCount = 2

\* the ids of a list of contacts or records
Ids(xs) == {xs[k].id : k \in 1..Len(xs)}

\* C12: against a contact source with distinct ids that serves each page as
\* asked, the contacts collected by fetchAllPrescribers are the first ones
\* of the source, each once; the k-th record built carries the id of the
\* k-th contact collected, and the output list has one record per collected
\* contact, no two with the same id.
C12_UniqueIds ==
  /\ Cardinality(Ids(all)) = Len(all)
  /\ Len(all) <= source
  /\ \A k \in 1..Len(all) : all[k] = SourceContact(k)
  /\ Len(built) <= Len(all)
  /\ \A k \in 1..Len(built) : built[k].id = all[k].id
  /\ output # Null =>
       /\ Len(output.prescribers) = Len(all)
       /\ Cardinality(Ids(output.prescribers)) = Len(output.prescribers)
       /\ Ids(output.prescribers) = Ids(all)

\* C12 witness: a document of 201 records collected on three pages
C12_Witness ==
  /\ output # Null
  /\ source = 2 * BATCH_SIZE + 1
  /\ Len(output.prescribers) = source
  /\ Len(all) = source

\* the configuration under which the paid backend is to be used
PaidConfigured == GEOCODER = "google" /\ GOOGLE_KEY

\* the source a result must name under the configuration
ExpectedSource == IF PaidConfigured THEN SourceGoogle ELSE SourceNominatim

\* the geocode calls in qs that returned a result
Hits(qs) == {k \in 1..Len(qs) : qs[k].result \notin {Undefined, Null}}

\* C13: a geocode call goes to the Google backend if and only if GEOCODER
\* is "google" and the Google key is present, and to Nominatim (whose call
\* counter and sleep are then the only ones in use) in every other
\* configuration; the source of every result returned names that backend.
C13_BackendSelection ==
  /\ pc = "await_geocode" =>
       /\ backend \in {"google", "nominatim"}
       /\ (backend = "google") = PaidConfigured
  /\ pc = "await_sleep" => ~PaidConfigured
  /\ PaidConfigured => geocodeCount = 0
  /\ \A k \in Hits(queries) : queries[k].result.source = ExpectedSource
  /\ \A r \in Records :
       /\ \A k \in Hits(geoLog[r].queries) :
            geoLog[r].queries[k].result.source = ExpectedSource
       /\ geoLog[r].geo # Null => built[r].geoSource = ExpectedSource

\* C13 witness: GEOCODER is "google" but there is no key: a record was
\* geocoded by Nominatim
C13_Witness ==
  /\ GEOCODER = "google"
  /\ ~GOOGLE_KEY
  /\ \E r \in Records :
       /\ built[r].geoSource = SourceNominatim
       /\ built[r].lat # Null

\* a value that is blank: absent, null or the empty string (a value of
\* white space only is not: nothing trims it)
Blank(v) == v \in {Undefined, Null, Str(<<>>)}

\* the custom field if it is not blank, else the contact's own field
Preferred(custom, own) == IF ~Blank(custom) THEN custom ELSE own

\* the call of buildPrescriber has returned
UnitBuilt == unit.op = "buildPrescriber" /\ unit.result # Null

RECURSIVE CommaJoined(_)
CommaJoined(parts) ==
  IF parts = <<>> THEN <<>>
  ELSE LET rest == CommaJoined(Tail(parts))
       IN IF Blank(Head(parts)) THEN rest
          ELSE IF rest = <<>> THEN Head(parts).s
          ELSE Head(parts).s \o <<",", " ">> \o rest

\* address1, address2, city, state, zip of a field mapping
PartsOf(f) == [k \in 1..Len(AddressParts) |-> Get(f, AddressParts[k])]

\* C15: address.full of a record is the ", "-join of the non-empty values
\* among address1, address2, city, state and zip, in that order, for every
\* combination of present and absent parts, and null when all five are
\* absent; buildAddress returns the same string ("" when all are absent).
C15_AddressFull ==
  UnitBuilt =>
    LET parts == PartsOf(unit.fields)
        full == unit.result.address.full
    IN /\ (\A k \in 1..Len(parts) : Blank(parts[k])) = (full = Null)
       /\ full # Null => full = Str(CommaJoined(parts))
       /\ buildAddress(unit.fields) = Str(CommaJoined(parts))
       /\ full # Null => full.s # <<>>

\* C15 witness: address2 and state are absent; the other three parts are
\* joined in order
C15_Witness ==
  /\ UnitBuilt
  /\ DOMAIN unit.fields = {"address1", "city", "zip"}
  /\ unit.result.address.full =
       Str(PartValue(1).s \o <<",", " ">> \o PartValue(3).s \o <<",", " ">> \o PartValue(5).s)

\* C16: enrichWithGoogle is called for a record exactly when --enrich is
\* given, and sends a request only with a key. A record has verified = true
\* only if enrichment was enabled, the key was present and the places
\* search returned a first result, and then healthSystem is that result's
\* name; in every other case the record (pushed all the same) has
\* healthSystem = null, verified = false and no googleAddress.
C16_EnrichmentOnlyWhenEnabled ==
  /\ \A r \in Records :
       LET e == geoLog[r].enrich
           p == built[r]
       IN /\ e.called = ENRICH
          /\ (e.query # Null) = (ENRICH /\ GOOGLE_KEY)
          /\ e.place # Null => e.query # Null
          /\ p.verified = (e.place # Null)
          /\ p.verified =>
               /\ ENRICH /\ GOOGLE_KEY
               /\ p.healthSystem = Or(Get(e.place, "name"), Null)
          /\ ~p.verified => p.healthSystem = Null /\ "googleAddress" \notin DOMAIN p
  /\ pc = "await_places" => ENRICH /\ GOOGLE_KEY
  /\ abortCause \notin {"places", "enrich"}
  /\ (pc = "exit" /\ exitCode = 0) => Len(built) = Len(all)

\* C16 witness: of two records of an enriched run, one was verified by the
\* places search and one was not
C16_Witness ==
  /\ pc = "exit"
  /\ exitCode = 0
  /\ Len(built) = 2
  /\ \E r \in Records : built[r].verified /\ built[r].healthSystem # Null
  /\ \E r \in Records :
       /\ geoLog[r].enrich.query # Null
       /\ ~built[r].verified
       /\ built[r].healthSystem = Null

\* the value, or the empty string for null
Text(v) == IF v = Null THEN <<>> ELSE v.s

\* C17: the query enrichWithGoogle sends for a record is the trimmed
\* concatenation of the record's name, "ophthalmologist", the city and the
\* state of the record's address.
C17_QueryHasCityAndState ==
  \A r \in Records :
    geoLog[r].enrich.query # Null =>
      geoLog[r].enrich.query =
        Trim(Str(built[r].name.s \o Hint \o Text(built[r].address.city) \o <<" ">>
                 \o Text(built[r].address.state)))

\* the call of fetchFieldValues has returned
UnitFetched == unit.op = "fetchFieldValues" /\ unit.result # Null

\* the field values of fvs that count for the semantic name: a field id
\* the static map gives that name, and a value that is not blank
Counting(fvs, name) ==
  {k \in 1..Len(fvs) :
     /\ fvs[k].field \in DOMAIN FIELD_MAP
     /\ FIELD_MAP[fvs[k].field] = name
     /\ ~Blank(fvs[k].value)}

\* C18: the mapping fetchFieldValues returns contains a semantic name if
\* and only if some field value of the contact has a field id that the
\* static field map gives that name and a non-blank value, and maps the
\* name to the last such value; field values with an unrecognized id or a
\* blank value contribute nothing.
C18_FieldMapping ==
  UnitFetched =>
    LET fvs == unit.fieldValues
        mapped == unit.result.mapped
    IN /\ \A name \in DOMAIN mapped :
            /\ Counting(fvs, name) # {}
            /\ \E k \in Counting(fvs, name) :
                 /\ mapped[name] = fvs[k].value
                 /\ \A j \in Counting(fvs, name) : j <= k
            /\ ~Blank(mapped[name])
       /\ \A id \in DOMAIN FIELD_MAP :
            Counting(fvs, FIELD_MAP[id]) # {} => FIELD_MAP[id] \in DOMAIN mapped
       /\ DOMAIN mapped \subseteq {FIELD_MAP[id] : id \in DOMAIN FIELD_MAP}

\* C18 witness: a blank value of a recognized field and a value of an
\* unrecognized field yield the empty mapping
C18_Witness ==
  /\ UnitFetched
  /\ unit.fieldValues = << [field |-> 4, value |-> Str(<<>>)],
                           [field |-> 99, value |-> Str(<<"x">>)] >>
  /\ unit.result.mapped = NoFields

\* ------------------------------------------------------------------------
\* The map page: radius search
\* ------------------------------------------------------------------------
\* the list on display is the result of a radius search: #result-count
\* still reads "n prescribers within r mi of zip"
RadiusShown == resultCount.t = "within"

\* distance of a record from the searched point, in thousandths of a mile
FromSearch(p) == haversine(searchLat, searchLng, p.lat, p.lng)

\* the record of the file a displayed record was made of
Plain(p) == [k \in DOMAIN p \ {"distance"} |-> p[k]]

\* the record is in the list
Lists(list, p) == \E k \in 1..Len(list) : Plain(list[k]) = p

\* C19: a radius search displays no record farther from the searched point
\* than the selected radius and no record without coordinates; it displays
\* every record of the base set that has coordinates and lies within the
\* radius once, and the displayed records are in ascending order of distance.
C19_RadiusResult ==
  RadiusShown =>
    LET radius == 1000 * resultCount.radiusMiles.v
        base == getFilteredPrescribers(Page)
    IN /\ displayList = listed
       /\ markers = listed
       /\ \A k \in 1..Len(listed) :
            /\ HasCoords(listed[k])
            /\ listed[k].distance = FromSearch(listed[k])
            /\ listed[k].distance.v <= radius
       /\ \A j \in 1..Len(base) :
            HasCoords(base[j]) /\ FromSearch(base[j]).v <= radius
              => Cardinality({k \in 1..Len(listed) : Plain(listed[k]) = base[j]}) = 1
       /\ \A k \in 1..(Len(listed) - 1) : listed[k].distance.v <= listed[k + 1].distance.v

\* C19 witness: a search of 100 miles around latitude 41 shows three
\* records, the third of the file before the second; a record 207 miles
\* away and a record without latitude are left out
C19_Witness ==
  /\ RadiusShown
  /\ resultCount.radiusMiles = Num(100)
  /\ Len(listed) = 3
  /\ listed[2].id = Dataset[4].id
  /\ listed[3].id = Dataset[2].id
  /\ listed[3].distance.v > listed[2].distance.v
  /\ ~Lists(listed, Dataset[3])
  /\ ~Lists(listed, Dataset[5])

\* C20: when a state is selected as a radius search is evaluated, the state
\* of every record of the result normalizes to the selected code; when no
\* state is selected, every record of the full list that has coordinates
\* and lies within the radius is in the result.
C20_RadiusWithinState ==
  RadiusShown =>
    /\ Truthy(stateFilter) =>
         \A k \in 1..Len(listed) : normalizeState(StateOf(listed[k])) = stateFilter
    /\ ~Truthy(stateFilter) =>
         \A j \in 1..Len(allPrescribers) :
           /\ HasCoords(allPrescribers[j])
           /\ FromSearch(allPrescribers[j]).v <= 1000 * resultCount.radiusMiles.v
           => Lists(listed, allPrescribers[j])

\* C20 witness: NY is selected and the search shows the two records of New
\* York within 100 miles, not the record of Ontario at the searched point
C20_Witness ==
  /\ RadiusShown
  /\ stateFilter = Str(<<"N", "Y">>)
  /\ Len(listed) = 2
  /\ Lists(listed, Dataset[1])
  /\ Lists(listed, Dataset[2])
  /\ HasCoords(Dataset[4])
  /\ FromSearch(Dataset[4]).v = 0
  /\ ~Lists(listed, Dataset[4])
\* ------------------------------------------------------------------------
\* The map page: state filter
\* ------------------------------------------------------------------------
UnitNormalized == unit.op = "normalizeState" /\ unit.result # Null

\* the text without blanks around it, in capitals; "" for a value that is no text
Key(raw) == IF raw.t = "str" THEN toUpperCase(Trim(raw)).s ELSE <<>>

\* the entries of STATE_CODES the value names, by full name or by code
EntriesOf(raw) ==
  {k \in 1..Len(STATE_CODES) : Key(raw) \in {STATE_CODES[k].name, STATE_CODES[k].code}}

\* C21: normalizeState maps a full state name and a 2-letter code, in any
\* case and with blanks around them, to the 2-letter code, and any other
\* value to null; a record whose state normalizes to null is in no
\* state-filtered list and is in the unfiltered list, and a record with a
\* recognized state is in the list of its code and of no other code.
C21_StateNormalization ==
  UnitNormalized =>
    /\ \A k \in EntriesOf(unit.raw) : unit.result.code = Str(STATE_CODES[k].code)
    /\ EntriesOf(unit.raw) = {} => unit.result.code = Null
    /\ unit.result.views[Str(<<>>)] = OneRecord(unit.raw)
    /\ \A c \in VALID_CODES :
         unit.result.views[Str(c)] =
           IF unit.result.code = Str(c) THEN OneRecord(unit.raw) ELSE <<>>

\* C21 witness: " new york  " was normalized to NY, and the record is in
\* the list of NY and not in the list of NJ
C21_Witness ==
  /\ UnitNormalized
  /\ unit.raw = Str(<<" ", "n", "e", "w", " ", "y", "o", "r", "k", " ", " ">>)
  /\ unit.result.code = Str(<<"N", "Y">>)
  /\ Len(unit.result.views[Str(<<"N", "Y">>)]) = 1
  /\ unit.result.views[Str(<<"N", "J">>)] = <<>>
\* ------------------------------------------------------------------------
\* The map page: searches that fail
\* ------------------------------------------------------------------------
\* the alerts of doSearch
SearchAlerts == {"Please enter a valid 5-digit zip code.", "Could not find location for zip code"}

\* the filters and what is on display
filters == <<searchLat, searchLng, searchCircle, circles, zipMarkers, stateFilter, zipInput,
             listed, displayList, markers, mapView, resultCount>>

\* C22: a step of doSearch that raises an alert (the zip is not five digits,
\* or geocodeZip found nothing) changes neither the search coordinates, the
\* radius overlay, the selected state nor the records on display.
C22_FailedSearchChangesNothing ==
  [][alerted' \in SearchAlerts => UNCHANGED filters]_vars

\* C22 witness: a zip was not found while NY is selected and the result of
\* an earlier radius search is on display with its overlay
C22_Witness ==
  /\ alerted = "Could not find location for zip code"
  /\ stateFilter = Str(<<"N", "Y">>)
  /\ searchCircle \notin {Undefined, Null}
  /\ searchLat = Num(41)
  /\ resultCount.t = "within"
  /\ Len(listed) > 0
\* ------------------------------------------------------------------------
\* The map page: clearing
\* ------------------------------------------------------------------------
\* no radius search is active and no overlay is on the map
NoSearch(lat, lng, circle, overlays) ==
  /\ lat = Null
  /\ lng = Null
  /\ circle \in {Undefined, Null}
  /\ overlays = <<>>

Named(list, name) == list[CHOOSE k \in 1..Len(list) : list[k].name = name]

C25_LastResolvedWins ==
  [][Len(pending') < Len(pending) /\ alerted' = "" /\ GeocodeZipReturns =>
       \E k \in 1..Len(pending) :
         /\ pending' = RemoveFirst(pending, pending[k])
         /\ drawnBy' = pending[k].n
         /\ searchLat' \in {a.lat : a \in ZipAnswers \ {Null}}
         /\ searchLng' \in {a.lng : a \in ZipAnswers \ {Null}}
         /\ searchCircle' = [lat |-> searchLat', lng |-> searchLng',
                              miles |-> pending[k].radiusMiles]
         /\ circles' = <<searchCircle'>>
         /\ listed' = Nearby(getFilteredPrescribers([allPrescribers |-> allPrescribers,
                                                      stateFilter |-> stateFilter]),
                              searchLat', searchLng', pending[k].radiusMiles)
         /\ resultCount' = [t |-> "within", n |-> Len(listed'),
                             radiusMiles |-> pending[k].radiusMiles, zip |-> pending[k].zip]]_vars

\* C25 witness: of two searches the second, of 100 miles, resolved first;
\* the first, of 10 miles, resolved after it and is what the page shows
C25_Witness ==
  /\ searches = 2
  /\ pending = <<>>
  /\ Len(zipMarkers) = 2
  /\ drawnBy = 1
  /\ searchCircle.miles = Num(10)
  /\ radiusSelect = Str(<<"1", "0", "0">>)
  /\ resultCount.t = "within"
  /\ resultCount.radiusMiles = Num(10)
\* ------------------------------------------------------------------------
\* The map page: loading
\* ------------------------------------------------------------------------
\* C26: the listeners are added only when the load of the record list has
\* ended, so while it lasts no search and no filter is processed; when the
\* load fails the record list stays empty, #data-info shows the error, the
\* loading indicator is hidden and the listeners are added all the same.
C26_BoundAfterLoad ==
  /\ bound <=> phase = "ready"
  /\ phase = "loading" =>
       /\ ~loadingHidden
       /\ searches = 0 /\ pending = <<>> /\ alerted = ""
       /\ searchLat = Null /\ searchCircle = Undefined
       /\ stateFilter = Str(<<>>) /\ doctorSearch = Str(<<>>)
       /\ listed = <<>> /\ mapView = HomeView
  /\ phase = "ready" => loadingHidden /\ dataInfo.t \in {"generated", "error"}
  /\ dataInfo.t = "error" =>
       /\ allPrescribers = <<>>
       /\ stateOptions = <<>>
       /\ loadingHidden
       /\ bound

\* C26 witness: the load failed and a search was run afterwards: it shows
\* no record within the radius of the zip
C26_Witness ==
  /\ dataInfo.t = "error"
  /\ loadingHidden
  /\ allPrescribers = <<>>
  /\ resultCount.t = "within"
  /\ resultCount.n = 0
  /\ searchCircle \notin {Undefined, Null}
\* ------------------------------------------------------------------------
\* The map page: patient-zip markers
\* ------------------------------------------------------------------------
\* C27: showPrescribers removes the patient-zip marker of the search before:
\* at most one patient-zip marker is on the map, and none when no radius
\* search is active.
C27_OneZipMarker ==
  /\ Len(zipMarkers) <= 1
  /\ searchLat = Null => zipMarkers = <<>>
\* ------------------------------------------------------------------------
\* The map page: the radius overlay
\* ------------------------------------------------------------------------
\* C28: whenever the page waits for an event, a radius overlay is drawn
\* if and only if the search coordinates are not null, searchLat and
\* searchLng are both null or both not null, and at most one radius overlay
\* is on the map.
C28_OverlayIffSearch ==
  /\ searchLat = Null <=> searchLng = Null
  /\ searchCircle \notin {Undefined, Null} <=> searchLat # Null
  /\ Len(circles) <= 1
  /\ circles = IF searchCircle \in {Undefined, Null} THEN <<>> ELSE <<searchCircle>>

\* C28 witness: a second search was drawn over the first: two patient-zip
\* markers were added, and one overlay, of the second search, is on the map
C28_Witness ==
  /\ Len(zipMarkers) = 2
  /\ drawnBy = 2
  /\ searchLat # Null
  /\ Len(circles) = 1
  /\ circles[1] = searchCircle
  /\ searchCircle.lat = searchLat
\* ------------------------------------------------------------------------
\* The map page: changing the state
\* ------------------------------------------------------------------------
\* the record belongs to the list of the filter value
InState(p, value) == value = Str(<<>>) \/ normalizeState(StateOf(p)) = value

====
